---- MODULE Spec2Model ----
(***************************************************************************)
(* scripts/update.js: the title parser and the title -> card matcher, the  *)
(* marketplace collector, the rolling 30-day sales window and the price    *)
(* aggregator, as run by main().                                           *)
(*                                                                         *)
(* A JavaScript string is a sequence of characters; a character is a       *)
(* one-character string, or a named token for a character outside ASCII    *)
(* ("e_acute" is U+00E9, "COMB_ACUTE" is U+0301, "NBSP" is U+00A0,         *)
(* "SCRIPT_L" is U+2112, "TM_SIGN" is U+2122, "EUR" is U+20AC, "KANA_x" a  *)
(* kana).  null and the empty string are both <<>> where the code only     *)
(* tests them for truth.                                                   *)
(***************************************************************************)
EXTENDS Integers, Sequences, FiniteSets, TLC

VARIABLES
  \* the files of data/ and the wall clock
  catalogFile, salesFile, pricesFile, metaFile, clock,
  \* the process: its environment, where main() is, its locals, its exit status
  env, pc, catalog, salesObj, kept, cutoff, collectedAt, newSales, q, page, exitCode,
  \* whether console.error("eBay fetch error:") has been called in this run
  pageSkipped,
  \* runs started and items returned by the marketplace so far
  runs, observed,
  \* the title parser, the matcher and the collector's item loop on one title
  tTitle, tCatalog, tGradedOnly, tpc, tParsed, tMatch, tSale,
  \* the result-page parser and the item loop on one result page
  html, iGradedOnly, ipc, pageItems, iSales,
  \* one call of fetchJson or fetchHtml: the function, its retries argument, the
  \* loop index i, where the call is, the responses so far, the sleeps so far,
  \* what it returned
  fKind, fRetries, fI, fpc, fAttempts, fSleeps, fResult,
  \* fetchPokemonTcgEnCards and its caller: the page, the attempt, lastStatus,
  \* payload, all.length, totalCount, where the call is, the source of the
  \* English cards
  aPage, aAttempt, aLastStatus, aPayload, aAll, aTotal, apc, enSource,
  \* a normalizer applied to a text and to its own result: which of the two
  \* functions, the text, where the sequence is, the two results
  nKind, nInput, npc, nOnce, nTwice,
  \* data/dex_en_cache.json and the calls of getPokemonNameEnByDexId: the
  \* file, where the process is, the dexId and the cache object of the call,
  \* what the last call returned, the requests sent to PokeAPI, the calls and
  \* the runs so far
  dexFile, dpc, dId, dCache, dResult, dRequests, dLookups, dRuns,
  \* the catalog builders: what the sources return, CATALOG_STRATEGY,
  \* ENRICH_TCGDEX_EN_POKEMONKEY, the species map, where the build is, agg,
  \* jpSetIds, the loop index, out (the catalog once the build is done), the
  \* catalog of the build before, the builds so far
  bData, bStrategy, bEnrichEn, bSpecies, bpc, bAgg, bJpSetIds, bI, bOut, bPrev, bBuilds

\* ------------------------------------------------------------------ text

UpperChars == <<"A","B","C","D","E","F","G","H","I","J","K","L","M","N","O","P","Q","R","S","T","U","V","W","X","Y","Z">>
LowerChars == <<"a","b","c","d","e","f","g","h","i","j","k","l","m","n","o","p","q","r","s","t","u","v","w","x","y","z">>
DigitChars == <<"0","1","2","3","4","5","6","7","8","9">>

Upper == {UpperChars[i] : i \in DOMAIN UpperChars}
Lower == {LowerChars[i] : i \in DOMAIN LowerChars}
Digit == {DigitChars[i] : i \in DOMAIN DigitChars}

\* \w of a JavaScript regular expression without the u flag
WordChar == Upper \cup Lower \cup Digit \cup {"_"}

\* \s of a JavaScript regular expression, among the characters of the model
Space == {" ", "TAB", "NBSP"}

\* U+0300..U+036F
CombiningMark == {"COMB_ACUTE"}

NULL == "null"

Min(S) == CHOOSE x \in S : \A y \in S : x <= y

\* numeric value of a decimal digit string
RECURSIVE DigitsToNat(_)
DigitsToNat(ds) ==
  IF ds = <<>> THEN 0
  ELSE 10 * DigitsToNat(SubSeq(ds, 1, Len(ds) - 1))
       + ((CHOOSE i \in DOMAIN DigitChars : DigitChars[i] = ds[Len(ds)]) - 1)

\* String.prototype.toLowerCase, one character
LowerOfChar(c) ==
  IF c \in Upper THEN LowerChars[CHOOSE i \in DOMAIN UpperChars : UpperChars[i] = c]
  ELSE IF c = "E_ACUTE" THEN "e_acute"
  ELSE c

toLowerCase(s) == [i \in DOMAIN s |-> LowerOfChar(s[i])]

\* compatibility decomposition of one character
DecomposeChar(c) ==
  CASE c = "e_acute" -> <<"e", "COMB_ACUTE">>
    [] c = "E_ACUTE" -> <<"E", "COMB_ACUTE">>
    [] c = "NBSP"    -> <<" ">>
    [] c = "SCRIPT_L" -> <<"L">>
    [] c = "TM_SIGN" -> <<"T", "M">>
    [] OTHER         -> <<c>>

\* String.prototype.normalize("NFKD")
RECURSIVE NFKD(_)
NFKD(s) == IF s = <<>> THEN <<>> ELSE DecomposeChar(Head(s)) \o NFKD(Tail(s))

\* replace(/[\u0300-\u036f]/g, "")
StripMarks(s) == SelectSeq(s, LAMBDA c : c \notin CombiningMark)

\* index of the last character of the longest run of characters of Cls that
\* starts at i (i - 1 when there is none): a greedy X* or X+ from i
RunEnd(t, i, Cls) ==
  CHOOSE j \in (i - 1)..Len(t) :
    /\ \A k \in i..j : t[k] \in Cls
    /\ (j = Len(t) \/ t[j + 1] \notin Cls)

\* replace(/\s+/g, " ")
RECURSIVE CollapseFrom(_, _)
CollapseFrom(s, i) ==
  IF i > Len(s) THEN <<>>
  ELSE IF s[i] \in Space THEN <<" ">> \o CollapseFrom(s, RunEnd(s, i, Space) + 1)
  ELSE <<s[i]>> \o CollapseFrom(s, i + 1)

CollapseSpaces(s) == CollapseFrom(s, 1)

\* String.prototype.trim
Trim(s) ==
  IF \A i \in DOMAIN s : s[i] \in Space THEN <<>>
  ELSE SubSeq(s, Min({i \in DOMAIN s : s[i] \notin Space}),
                 CHOOSE j \in DOMAIN s : s[j] \notin Space
                                           /\ \A k \in (j + 1)..Len(s) : s[k] \in Space)

norm(s) == Trim(CollapseSpaces(StripMarks(NFKD(toLowerCase(s)))))

\* w occurs in t at index i
MatchAt(t, i, w) ==
  /\ i >= 1
  /\ i + Len(w) - 1 <= Len(t)
  /\ \A k \in DOMAIN w : t[i + k - 1] = w[k]

\* String.prototype.includes
Includes(t, w) == \E i \in 1..(Len(t) + 1) : MatchAt(t, i, w)

startsWith(t, w) == MatchAt(t, 1, w)

IsWordAt(t, i) == i >= 1 /\ i <= Len(t) /\ t[i] \in WordChar

\* \b between the characters i - 1 and i
Boundary(t, i) == IsWordAt(t, i - 1) # IsWordAt(t, i)

\* /\bw\b/.test(t)
HasWord(t, w) ==
  \E i \in DOMAIN t : Boundary(t, i) /\ MatchAt(t, i, w) /\ Boundary(t, i + Len(w))

\* ---------------------------------------------------------- title parser

\* /\b(\d+)\s*(cards|carte)\b/.test(t)
HasCountOfCards(t) ==
  \E i \in DOMAIN t :
    /\ Boundary(t, i)
    /\ t[i] \in Digit
    /\ LET d == RunEnd(t, i, Digit)
           s == RunEnd(t, d + 1, Space)
       IN \E w \in {<<"c","a","r","d","s">>, <<"c","a","r","t","e">>} :
            MatchAt(t, s + 1, w) /\ Boundary(t, s + 1 + Len(w))

\* isLikelyLot without its /\bbundle\b/ test
isLikelyLotNoBundle(title) ==
  LET t == norm(title)
  IN \/ HasWord(t, <<"l","o","t">>)
     \/ HasWord(t, <<"p","l","a","y","s","e","t">>)
     \/ HasWord(t, <<"c","h","o","o","s","e">>)
     \/ HasWord(t, <<"s","e","l","e","z","i","o","n","a">>)
     \/ HasCountOfCards(t)

\* the six tests of isLikelyLot
isLikelyLot(title) ==
  LET t == norm(title)
  IN \/ HasWord(t, <<"l","o","t">>)
     \/ HasWord(t, <<"b","u","n","d","l","e">>)
     \/ HasWord(t, <<"p","l","a","y","s","e","t">>)
     \/ HasWord(t, <<"c","h","o","o","s","e">>)
     \/ HasWord(t, <<"s","e","l","e","z","i","o","n","a">>)
     \/ HasCountOfCards(t)

detectLangFromTitle(title) ==
  LET t == norm(title)
  IN IF \E w \in {<<"j","a","p">>, <<"j","p","n">>, <<"j","p">>, <<"g","i","a","p","p","o","n","e","s","e">>} : HasWord(t, w) THEN "ja"
     ELSE IF \E w \in {<<"e","n","g">>, <<"e","n","g","l","i","s","h">>, <<"e","n">>, <<"i","n","g","l","e","s","e">>} : HasWord(t, w) THEN "en"
     ELSE NULL

\* /^(sv|s|sm|bw|xy)\d{1,3}a$/.test(code)
inferLangFromSetCode(setCode) ==
  LET code == norm(setCode)
  IN IF \E p \in {<<"s","v">>, <<"s">>, <<"s","m">>, <<"b","w">>, <<"x","y">>} :
          /\ startsWith(code, p)
          /\ LET d == RunEnd(code, Len(p) + 1, Digit)
             IN /\ d - Len(p) \in 1..3
                /\ d + 1 = Len(code)
                /\ code[d + 1] = "a"
     THEN "ja"
     ELSE NULL

\* end of the match of graad\s*[0-9]{1,2}(?:[.,]5)? at i in t, 0 when there is
\* none; t is lower case where the expression is case-insensitive
GradeTokenEnd(t, i) ==
  IF ~MatchAt(t, i, <<"g","r","a","a","d">>) THEN 0
  ELSE LET s == RunEnd(t, i + 5, Space)
           r == RunEnd(t, s + 1, Digit)
           d == IF r - s >= 2 THEN s + 2 ELSE r
       IN IF r = s THEN 0
          ELSE IF d + 2 <= Len(t) /\ t[d + 1] \in {".", ","} /\ t[d + 2] = "5"
               THEN d + 2
               ELSE d

\* the grade in tenths: Number(m[1].replace(",", ".")) * 10
GradeTenths(t, i) ==
  LET s == RunEnd(t, i + 5, Space)
      e == GradeTokenEnd(t, i)
      d == IF t[e] = "5" /\ e - 1 > s /\ t[e - 1] \in {".", ","} THEN e - 2 ELSE e
  IN 10 * DigitsToNat(SubSeq(t, s + 1, d)) + (IF d = e THEN 0 ELSE 5)

\* a bucket table that knows the exact grades only
BucketOfGradeExactOnly(g) ==
  IF g = 100 THEN "graad_10"
  ELSE IF g = 95 THEN "graad_9_5"
  ELSE IF g = 90 THEN "graad_9"
  ELSE IF g = 80 THEN "graad_8"
  ELSE IF g = 70 THEN "graad_7"
  ELSE "graad_unknown"

\* the bucket of a grade g, in tenths
BucketOfGrade(g) ==
  IF g = 100 THEN "graad_10"
  ELSE IF g = 95 THEN "graad_9_5"
  ELSE IF g = 90 THEN "graad_9"
  ELSE IF g = 80 THEN "graad_8"
  ELSE IF g = 70 THEN "graad_7"
  ELSE IF g > 90 /\ g < 95 THEN "graad_9"
  ELSE IF g > 80 /\ g < 90 THEN "graad_8"
  ELSE IF g > 70 /\ g < 80 THEN "graad_7"
  ELSE "graad_unknown"

\* t.match(/graad\s*([0-9]{1,2}(?:[.,]5)?)/): the starts of the matches in t
GradeTokens(t) == {i \in DOMAIN t : GradeTokenEnd(t, i) > 0}

\* the bucket of a normalized title
BucketOfNorm(t) ==
  IF ~Includes(t, <<"g","r","a","a","d">>) THEN NULL
  ELSE IF GradeTokens(t) = {} THEN "graad_unknown"
  ELSE BucketOfGrade(GradeTenths(t, Min(GradeTokens(t))))

detectGraadBucket(title) == BucketOfNorm(norm(title))

\* end of the match of \b(sv\d{1,2}[a-z]?|m[a-z]{1,3})\b at i, 0 when none
SetCodeEndAt(t, i) ==
  IF ~Boundary(t, i) THEN 0
  ELSE IF MatchAt(t, i, <<"s","v">>) THEN
    LET r == RunEnd(t, i + 2, Digit)
        try(k) ==   \* k digits, then the optional letter, then \b
          LET d == i + 1 + k
          IN IF r < d THEN 0
             ELSE IF d + 1 <= Len(t) /\ t[d + 1] \in Lower /\ Boundary(t, d + 2) THEN d + 1
             ELSE IF Boundary(t, d + 1) THEN d
             ELSE 0
    IN IF try(2) > 0 THEN try(2) ELSE try(1)
  ELSE IF MatchAt(t, i, <<"m">>) THEN
    LET r == RunEnd(t, i + 1, Lower)
    IN IF r - i \in 1..3 /\ Boundary(t, r + 1) THEN r ELSE 0
  ELSE 0

extractSetCode(title) ==
  LET t == norm(title)
      at == {i \in DOMAIN t : SetCodeEndAt(t, i) > 0}
  IN IF at = {} THEN <<>> ELSE SubSeq(t, Min(at), SetCodeEndAt(t, Min(at)))

\* match of (\d{1,3})\s*\/\s*(\d{1,3}) at i: the end of group 1, 0 when none
FractionAt(t, i) ==
  IF t[i] \notin Digit THEN 0
  ELSE LET d == RunEnd(t, i, Digit)
           s == RunEnd(t, d + 1, Space)
           u == RunEnd(t, s + 2, Space)
       IN IF /\ d - i + 1 <= 3
             /\ s + 1 <= Len(t) /\ t[s + 1] = "/"
             /\ u + 1 <= Len(t) /\ t[u + 1] \in Digit
          THEN d ELSE 0

\* match of \b([A-Z]{1,4}\d{1,4})\b at i: its end, 0 when none
PromoAt(t, i) ==
  IF ~(Boundary(t, i) /\ t[i] \in Upper) THEN 0
  ELSE LET l == RunEnd(t, i, Upper)
           d == RunEnd(t, l + 1, Digit)
       IN IF l - i + 1 <= 4 /\ d - l \in 1..4 /\ Boundary(t, d + 1) THEN d ELSE 0

\* raw.replace(/graad\s*[0-9]{1,2}(?:[.,]5)?/ig, " ")
RECURSIVE StripGradeFrom(_, _)
StripGradeFrom(raw, i) ==
  IF i > Len(raw) THEN <<>>
  ELSE LET e == GradeTokenEnd(toLowerCase(raw), i)
       IN IF e > 0 THEN <<" ">> \o StripGradeFrom(raw, e + 1)
          ELSE <<raw[i]>> \o StripGradeFrom(raw, i + 1)

\* match of \b#?\s*(\d{2,3})\b at i: <<start, end>> of group 1, <<0, 0>> when none
NumberAt(t, i) ==
  IF ~Boundary(t, i) THEN <<0, 0>>
  ELSE LET h == IF t[i] = "#" THEN i + 1 ELSE i
           s == RunEnd(t, h, Space)
           d == RunEnd(t, s + 1, Digit)
       IN IF d - s \in 2..3 /\ Boundary(t, d + 1) THEN <<s + 1, d>> ELSE <<0, 0>>

extractLocalId(title) ==
  LET raw == title
      m1 == {i \in DOMAIN raw : FractionAt(raw, i) > 0}
      mPromo == {i \in DOMAIN raw : PromoAt(raw, i) > 0}
      rawWithoutGrade == StripGradeFrom(raw, 1)
      m2 == {i \in DOMAIN rawWithoutGrade : NumberAt(rawWithoutGrade, i)[1] > 0}
  IN IF m1 # {} THEN SubSeq(raw, Min(m1), FractionAt(raw, Min(m1)))
     ELSE IF mPromo # {} THEN SubSeq(raw, Min(mPromo), PromoAt(raw, Min(mPromo)))
     ELSE IF m2 # {}
       THEN SubSeq(rawWithoutGrade, NumberAt(rawWithoutGrade, Min(m2))[1],
                                    NumberAt(rawWithoutGrade, Min(m2))[2])
     ELSE <<>>

\* ------------------------------------------------------ title -> card matcher

\* a card of catalog.json: id, imageLarge are atoms, the other fields strings;
\* a missing nameEn is <<>>
titleHasName(tNorm, card) ==
  \/ Includes(tNorm, norm(card.name))
  \/ (card.nameEn # <<>> /\ Includes(tNorm, norm(card.nameEn)))

\* let best = list[0]; for (const c of list) if (c.imageLarge && !best.imageLarge) best = c
RECURSIVE PreferImage(_, _)
PreferImage(best, list) ==
  IF list = <<>> THEN best
  ELSE PreferImage(IF Head(list).imageLarge # "" /\ best.imageLarge = ""
                   THEN Head(list) ELSE best,
                   Tail(list))

NoMatch == [card |-> <<>>, confidence |-> 0, mode |-> "none"]

\* Math.min on hundredths
MathMin(a, b) == IF a <= b THEN a ELSE b

\* the language test without its first line, if (lang && c.lang !== lang)
LangOkNoExplicit(c, lang, finalLang) ==
  ~(lang = NULL /\ finalLang # NULL /\ c.lang # finalLang)

\* the language test shared by the three passes
LangOk(c, lang, finalLang) ==
  /\ ~(lang # NULL /\ c.lang # lang)
  /\ ~(lang = NULL /\ finalLang # NULL /\ c.lang # finalLang)

\* if (setCode && norm(c.setId) !== norm(setCode)) return false
SetOk(c, setCode) == ~(setCode # <<>> /\ norm(c.setId) # norm(setCode))

\* if (c.number && norm(c.number) !== norm(localId)) return false
NumberOk(c, localId) == ~(c.number # <<>> /\ norm(c.number) # norm(localId))

\* the filter of the fallback without a card number
NameOnlyPass(cards, t, lang, finalLang, setCode) ==
  SelectSeq(cards, LAMBDA c :
    LangOk(c, lang, finalLang) /\ SetOk(c, setCode) /\ titleHasName(t, c))

\* PASS 1: language, set code, number, name
StrictPass(cards, t, lang, finalLang, setCode, localId) ==
  SelectSeq(cards, LAMBDA c :
    /\ LangOk(c, lang, finalLang)
    /\ SetOk(c, setCode)
    /\ NumberOk(c, localId)
    /\ titleHasName(t, c))

\* PASS 2: number, name, language when there is one
LoosePass(cards, t, lang, finalLang, localId) ==
  SelectSeq(cards, LAMBDA c :
    LangOk(c, lang, finalLang) /\ NumberOk(c, localId) /\ titleHasName(t, c))

\* loose.find(c => norm(c.setId).startsWith(norm(setCode).slice(0, 2)))
sameFamily(list, setCode) ==
  SelectSeq(list, LAMBDA c :
    startsWith(norm(c.setId), SubSeq(norm(setCode), 1, MathMin(2, Len(norm(setCode))))))

\* let best = loose[0]; if (setCode) { ... if (sameFamily) best = sameFamily }
LooseBest(list, family, setCode) ==
  IF setCode # <<>> /\ family # <<>> THEN family[1] ELSE list[1]

\* the fallback without a card number, had its base been 0.70
NameOnlyResultLowBase(list, setCode, finalLang) ==
  IF list = <<>> THEN NoMatch
  ELSE [card |-> <<PreferImage(list[1], list)>>,
        confidence |-> MathMin(70 + (IF setCode # <<>> THEN 5 ELSE 0)
                                  + (IF finalLang # NULL THEN 3 ELSE 0), 82),
        mode |-> "name_only"]

\* the three returns with a card, confidence in hundredths
NameOnlyResult(list, setCode, finalLang) ==
  IF list = <<>> THEN NoMatch
  ELSE [card |-> <<PreferImage(list[1], list)>>,
        confidence |-> MathMin(72 + (IF setCode # <<>> THEN 5 ELSE 0)
                                  + (IF finalLang # NULL THEN 3 ELSE 0), 82),
        mode |-> "name_only"]

StrictResult(list, finalLang) ==
  [card |-> <<PreferImage(list[1], list)>>,
   confidence |-> MathMin(86 + (IF finalLang # NULL THEN 4 ELSE 0), 100),
   mode |-> "strict"]

LooseResult(list, setCode, finalLang) ==
  IF list = <<>> THEN NoMatch
  ELSE [card |-> <<PreferImage(LooseBest(list, sameFamily(list, setCode), setCode), list)>>,
        confidence |-> MathMin(80 + (IF finalLang # NULL THEN 5 ELSE 0), 90),
        mode |-> "loose"]

\* the passes, had the loose pass been tried before the strict one
MatchPassesLooseFirst(cards, t, lang, finalLang, setCode, localId, strictList) ==
  IF localId = <<>>
  THEN NameOnlyResult(NameOnlyPass(cards, t, lang, finalLang, setCode), setCode, finalLang)
  ELSE IF LoosePass(cards, t, lang, finalLang, localId) # <<>>
  THEN LooseResult(LoosePass(cards, t, lang, finalLang, localId), setCode, finalLang)
  ELSE NoMatch

\* the passes in order, once the title is parsed
MatchPasses(cards, t, lang, finalLang, setCode, localId, strictList) ==
  IF localId = <<>>
  THEN NameOnlyResult(NameOnlyPass(cards, t, lang, finalLang, setCode), setCode, finalLang)
  ELSE IF strictList # <<>> THEN StrictResult(strictList, finalLang)
  ELSE LooseResult(LoosePass(cards, t, lang, finalLang, localId), setCode, finalLang)

\* const finalLang = lang || langBySet
FinalLang(lang, langBySet) == IF lang # NULL THEN lang ELSE langBySet

MatchParsed(cards, t, lang, finalLang, setCode, localId) ==
  IF isLikelyLot(t) THEN NoMatch
  ELSE MatchPasses(cards, t, lang, finalLang, setCode, localId,
                   StrictPass(cards, t, lang, finalLang, setCode, localId))

MatchLang(cards, t, lang, setCode, localId) ==
  MatchParsed(cards, t, lang, FinalLang(lang, inferLangFromSetCode(setCode)), setCode, localId)

MatchNorm(cards, t, setCode, localId) ==
  MatchLang(cards, t, detectLangFromTitle(t), setCode, localId)

\* the result is [card, confidence, mode]: card is <<>> for null or <<c>>
bestMatchCard(cat, title) ==
  MatchNorm(cat.cards, norm(title), extractSetCode(title), extractLocalId(title))

\* ------------------------------------------------------------- collector

\* the bucket names b with b.startsWith("graad_"); a bucket name is an atom
GraadPrefixed ==
  {"graad_7", "graad_8", "graad_9", "graad_9_5", "graad_10", "graad_unknown"}

\* const graded = bucket && bucket.startsWith("graad_")
Graded(bucket) == bucket # NULL /\ bucket \in GraadPrefixed

\* newSales.push({ ... }) when the match is good enough
PushSale(it, stamp, match, priceBucket) ==
  IF match.card = <<>> \/ match.confidence < 72 THEN <<>>
  ELSE << [collectedAt |-> stamp,
           source |-> "ebay.it",
           title |-> it.title,
           url |-> it.url,
           price_eur |-> it.price_eur,
           cardId |-> match.card[1].id,
           bucket |-> priceBucket] >>

ItemWithBucket(cat, it, gradedOnly, stamp, bucket) ==
  IF gradedOnly /\ ~Graded(bucket) THEN <<>>
  ELSE PushSale(it, stamp, bestMatchCard(cat, it.title),
                IF Graded(bucket) THEN bucket ELSE "raw")

\* the body of the loop over the items of one result page: the list of
\* sales it appends, empty or one sale
CollectItem(cat, it, gradedOnly, stamp) ==
  IF isLikelyLot(it.title) THEN <<>>
  ELSE ItemWithBucket(cat, it, gradedOnly, stamp, detectGraadBucket(it.title))

\* --------------------------------------------------- catalogs and titles

\* a card as the catalog builders write it (update.js 671-729, 818-835)
PikachuJa ==
  [id |-> "sv9a-181-pikachu v-ja", setId |-> <<"s","v","9","a">>, number |-> <<"1","8","1">>, lang |-> "ja",
   name |-> <<"KANA_PI","KANA_KA","KANA_CHU","KANA_U","V">>, nameEn |-> <<"P","i","k","a","c","h","u"," ","V">>,
   imageLarge |-> "https://assets.tcgdex.net/ja/sv9a/181/high.webp"]
\* the same printing when the English name could not be resolved
PikachuJaUnresolved ==
  [id |-> "sv9a-181-[kana]v-ja", setId |-> <<"s","v","9","a">>, number |-> <<"1","8","1">>, lang |-> "ja",
   name |-> <<"KANA_PI","KANA_KA","KANA_CHU","KANA_U","V">>, nameEn |-> <<>>,
   imageLarge |-> "https://assets.tcgdex.net/ja/sv9a/181/high.webp"]
PikachuEn ==
  [id |-> "sv09-181-pikachu v-en", setId |-> <<"s","v","0","9">>, number |-> <<"1","8","1">>, lang |-> "en",
   name |-> <<"P","i","k","a","c","h","u"," ","V">>, nameEn |-> <<"P","i","k","a","c","h","u"," ","V">>, imageLarge |-> ""]
PikachuEnPromo ==
  [id |-> "svp-181-pikachu v-en", setId |-> <<"s","v","p">>, number |-> <<"1","8","1">>, lang |-> "en",
   name |-> <<"P","i","k","a","c","h","u"," ","V">>, nameEn |-> <<"P","i","k","a","c","h","u"," ","V">>,
   imageLarge |-> "https://assets.tcgdex.net/en/svp/181/high.webp"]
CharizardEn ==
  [id |-> "sv03-006-charizard ex-en", setId |-> <<"s","v","0","3">>, number |-> <<"0","0","6">>, lang |-> "en",
   name |-> <<"C","h","a","r","i","z","a","r","d"," ","e","x">>, nameEn |-> <<"C","h","a","r","i","z","a","r","d"," ","e","x">>,
   imageLarge |-> "https://assets.tcgdex.net/en/sv03/006/high.webp"]
CharizardJa ==
  [id |-> "sv2a-006-charizard ex-ja", setId |-> <<"s","v","2","a">>, number |-> <<"0","0","6">>, lang |-> "ja",
   name |-> <<"KANA_RI","KANA_ZA","KANA_DO","e","x">>, nameEn |-> <<"C","h","a","r","i","z","a","r","d"," ","e","x">>, imageLarge |-> ""]
MeloettaJa ==
  [id |-> "sv1a-022-meloetta-ja", setId |-> <<"s","v","1","a">>, number |-> <<"0","2","2">>, lang |-> "ja",
   name |-> <<"KANA_ME","KANA_RO","KANA_E","KANA_TTA">>, nameEn |-> <<"M","e","l","o","e","t","t","a">>, imageLarge |-> ""]
MewEn ==
  [id |-> "sv03.5-025-mew-en", setId |-> <<"s","v","0","3",".","5">>, number |-> <<"0","2","5">>, lang |-> "en",
   name |-> <<"M","e","w">>, nameEn |-> <<"M","e","w">>,
   imageLarge |-> "https://assets.tcgdex.net/en/sv03.5/025/high.webp"]

\* an English printing of another series, with a picture
PikachuEnSwsh ==
  [id |-> "swsh4-181-pikachu v-en", setId |-> <<"s","w","s","h","4">>, number |-> <<"1","8","1">>, lang |-> "en",
   name |-> <<"P","i","k","a","c","h","u"," ","V">>, nameEn |-> <<"P","i","k","a","c","h","u"," ","V">>,
   imageLarge |-> "https://images.pokemontcg.io/swsh4/181_hires.png"]

\* catalog.json: cards lists the cards whose names occur in the titles of the
\* model; others counts, per lang, the remaining cards of the file, which no
\* title of the model names
Catalog(cards, en, ja) == [cards |-> cards, others |-> [en |-> en, ja |-> ja]]

\* readJson's fallback { cards: [] }
EmptyCatalog == Catalog(<<>>, 0, 0)

\* catalog.cards.length
CardsLength(cat) == Len(cat.cards) + cat.others.en + cat.others.ja

\* the catalogs the matcher is tried on
MatchCatalogs ==
  { Catalog(<<PikachuJa, PikachuEn, PikachuEnPromo, CharizardEn, CharizardJa, MeloettaJa, MewEn>>,
            9000, 4000),
    Catalog(<<PikachuEn, CharizardJa, CharizardEn, MewEn>>, 9000, 4000),
    Catalog(<<PikachuEn, PikachuEnSwsh, CharizardEn>>, 9000, 4000) }

MewTitle == <<"M","e","w"," ","0","2","5"," ","S","V","3",".","5"," ","G","R","A","A","D"," ","1","0">>
GradeOnlyTitle == <<"p","o","k","e","m","o","n"," ","g","r","a","a","d"," ","9",".","5"," ","c","h","a","r","i","z","a","r","d">>

\* titles with one grade token each, with the grade they carry in tenths
GradedTitles ==
  { [grade |-> 70, title |-> <<"M","e","w"," ","G","R","A","A","D"," ","7"," ","e","n">>],
    [grade |-> 75, title |-> <<"M","e","w"," ","G","R","A","A","D"," ","7",".","5"," ","e","n">>],
    [grade |-> 80, title |-> <<"M","e","w"," ","G","R","A","A","D"," ","8"," ","e","n">>],
    [grade |-> 85, title |-> <<"C","h","a","r","i","z","a","r","d"," ","e","x"," ","G","R","A","A","D"," ","8",".","5"," ","0","0","6">>],
    [grade |-> 90, title |-> <<"P","i","k","a","c","h","u"," ","V"," ","S","V","P","1","2","3"," ","G","R","A","A","D"," ","9">>],
    [grade |-> 95, title |-> <<"P","i","k","a","c","h","u"," ","V"," ","G","R","A","A","D"," ","9",",","5"," ","1","8","1">>],
    [grade |-> 100, title |-> <<"M","e","w"," ","0","2","5"," ","G","R","A","A","D"," ","1","0">>] }

\* marketplace titles
Titles ==
  {r.title : r \in GradedTitles} \cup
  { <<"P","i","k","a","c","h","u"," ","V"," ","1","8","1","/","1","6","5"," ","S","V","9","A"," ","J","A","P"," ","G","R","A","A","D"," ","9",".","5">>,
    <<"C","h","a","r","i","z","a","r","d"," ","e","x"," ","0","0","6","/","1","6","5"," ","S","V","2","A"," ","E","N","G"," ","2","9",",","9","0"," ","EUR">>,
    <<"L","o","t"," ","5","0"," ","P","o","k","e","m","o","n"," ","C","a","r","d","s"," ","R","a","n","d","o","m"," ","G","R","A","A","D"," ","8">>,
    <<"M","e","l","o","e","t","t","a"," ","0","2","2","/","0","2","1"," ","J","A","P">>,
    MewTitle,
    GradeOnlyTitle,
    <<"P","i","k","a","c","h","u"," ","V"," ","1","8","1"," ","G","R","A","A","D"," ","6">>,
    <<"M","e","w"," ","0","2","5"," ","G","R","A","A","D"," ","1","0">>,
    <<"P","i","k","a","c","h","u"," ","V"," ","S","V","P","1","2","3"," ","G","R","A","A","D"," ","9">>,
    <<"C","h","a","r","i","z","a","r","d"," ","e","x"," ","1","0"," ","c","a","r","t","e"," ","G","R","A","A","D"," ","9">>,
    <<"P","i","k","a","c","h","u"," ","V"," ","s","v","0","9"," ","E","N","G">>,
    <<"P","i","k","a","c","h","u"," ","V"," ","J","A","P"," ","E","N","G"," ","1","8","1","/","1","6","5">>,
    <<"P","o","k","e_acute","m","o","n"," ","P","i","k","a","c","h","u"," ","V"," ","1","8","1","/","1","6","5">>,
    <<"B","u","n","d","l","e"," ","C","h","a","r","i","z","a","r","d"," ","e","x"," ","0","0","6","/","1","6","5"," ","e","n","g">>,
    <<"P","i","k","a","c","h","u"," ","V"," ","G","R","A","A","D"," ","9",",","5"," ","1","8","1">>,
    <<"P","i","k","a","c","h","u"," ","V"," ","G","R","A","A","D">>,
    <<"P","i","k","a","c","h","u"," ","V"," ","p","l","a","y","s","e","t"," ","1","8","1","/","1","6","5"," ","J","A","P">>,
    <<"P","I","K","A","C","H","U"," "," ","V","TAB","1","8","1","/","1","6","5"," ","j","p","n">>,
    <<"C","h","a","r","i","z","a","r","d"," ","e","x"," ","G","R","A","A","D"," ","8",".","5"," ","0","0","6">>,
    <<"P","i","k","a","c","h","u"," ","V"," ","s","v","9","a"," ","e","n","g"," ","1","8","1">>,
    <<"C","h","a","r","i","z","a","r","d"," ","e","x"," ","s","v","2","a"," ","i","n","g","l","e","s","e">>,
    <<"C","h","a","r","i","z","a","r","d"," ","e","x"," ","G","R","A","A","D","1","0"," ","#","0","0","6">>,
    <<"M","e","w"," ","G","R","A","A","D"," ","7"," ","e","n">>,
    <<"C","h","a","r","i","z","a","r","d"," ","e","x"," ","G","R","A","A","D"," ","9",".","5","/","1","0">>,
    <<"P","i","k","a","c","h","u"," ","V"," ","1","8","1","/","1","9","8"," ","s","v","0","8"," ","e","n","g">>,
    <<"C","h","a","r","i","z","a","r","d"," ","e","x"," ","0","0","6"," ","s","v","0","4">>,
    <<"P","i","k","a","c","h","u"," ","V"," ","1","8","1","/","1","9","8"," ","s","v","0","9"," ","e","n","g">> }

\* ------------------------------------------------------------ the pipeline

DAYS == 30
MIN_CATALOG_CARDS == 12000
MIN_EN_CARDS == 8000
PAGES_PER_QUERY == 2

\* runs of main() in one behaviour
MaxRuns == 2
\* items the marketplace returns in one behaviour, over all result pages
MaxListings == 2
\* items on one result page
MaxPageItems == 1

\* time is in ticks of 100 ms (Date.now() / 100); DAYS * 24 * 3600 * 1000 ms
Window == DAYS * 24 * 3600 * 10

\* new Date().toISOString().slice(0, 19) + "Z": the instant cut to the second
todayISO(now) == (now \div 10) * 10

\* a collectedAt that no Date parses: new Date(s).getTime() is NaN
InvalidDate == 0 - 1

\* the filter of the window without the comparison with the cutoff
NotBeforeAnyDate(stamp, since) == stamp # InvalidDate

\* new Date(s.collectedAt).getTime() >= cutoff, false when the time is NaN
NotBefore(stamp, since) == stamp # InvalidDate /\ stamp >= since

\* time between two runs: within the window of the run before, or past it
Deltas == {Window - 5, Window + 5}

BUCKETS == <<"raw", "graad_7", "graad_8", "graad_9", "graad_9_5", "graad_10">>

queries ==
  << [keyword |-> "GRAAD pokemon", gradedOnly |-> TRUE],
     [keyword |-> "GRAAD sv2a", gradedOnly |-> TRUE],
     [keyword |-> "GRAAD sv9a", gradedOnly |-> TRUE],
     [keyword |-> "GRAAD jap", gradedOnly |-> TRUE],
     [keyword |-> "pokemon sv2a 181/165", gradedOnly |-> FALSE],
     [keyword |-> "pokemon meloetta 022/021", gradedOnly |-> FALSE] >>

\* what the catalog build of a run can give: it throws, or returns a catalog,
\* large enough or not
BuiltCatalogs ==
  { Catalog(<<PikachuJa, CharizardEn>>, 9000, 4000),
    Catalog(<<PikachuJaUnresolved, CharizardEn>>, 9000, 4000),
    Catalog(<<PikachuJa, CharizardEn>>, 7000, 4000) }

BuildOutcomes ==
  {[threw |-> TRUE, catalog |-> EmptyCatalog]}
    \cup {[threw |-> FALSE, catalog |-> c] : c \in BuiltCatalogs}

\* items parseEbaySearchItems can return: title, price in cents, link
Listings ==
  { [title |-> <<"P","i","k","a","c","h","u"," ","V"," ","1","8","1","/","1","6","5"," ","S","V","9","A"," ","J","A","P"," ","G","R","A","A","D"," ","9",".","5">>, price_eur |-> 12000, url |-> "itm/1"],
    [title |-> <<"P","i","k","a","c","h","u"," ","V"," ","1","8","1","/","1","6","5"," ","S","V","9","A"," ","J","A","P"," ","G","R","A","A","D"," ","9",".","5">>, price_eur |-> 8001, url |-> "itm/2"],
    [title |-> <<"P","i","k","a","c","h","u"," ","V"," ","1","8","1"," ","G","R","A","A","D"," ","6">>, price_eur |-> 5000, url |-> "itm/3"],
    [title |-> <<"C","h","a","r","i","z","a","r","d"," ","e","x"," ","0","0","6","/","1","6","5"," ","S","V","2","A"," ","E","N","G"," ","2","9",",","9","0"," ","EUR">>, price_eur |-> 2990, url |-> "itm/4"],
    [title |-> <<"L","o","t"," ","5","0"," ","P","o","k","e","m","o","n"," ","C","a","r","d","s"," ","R","a","n","d","o","m"," ","G","R","A","A","D"," ","8">>, price_eur |-> 3000, url |-> "itm/5"] }

\* a sales_30d.json written by hand, with a stamp no Date parses
LegacySales ==
  << [collectedAt |-> InvalidDate, source |-> "ebay.it",
      title |-> <<"P","i","k","a","c","h","u"," ","V"," ","1","8","1","/","1","6","5"," ","S","V","9","A"," ","J","A","P"," ","G","R","A","A","D"," ","9",".","5">>, url |-> "itm/0",
      price_eur |-> 11000, cardId |-> "sv9a-181-pikachu v-ja", bucket |-> "graad_9_5"] >>

validateCatalogShape(cat) ==
  /\ CardsLength(cat) >= MIN_CATALOG_CARDS
  /\ Len(SelectSeq(cat.cards, LAMBDA c : c.lang = "en")) + cat.others.en >= MIN_EN_CARDS

\* a key that tells two sightings of one listing apart
DedupKeyWithStamp(s) == <<s.url, s.price_eur, s.cardId, s.bucket, s.collectedAt>>

\* `${s.url}|${s.price_eur}|${s.cardId}|${s.bucket}`
DedupKey(s) == <<s.url, s.price_eur, s.cardId, s.bucket>>

\* a merge in which a new sighting replaces the retained sale of its key
MergeSalesNewestWins(keptSales, fresh) ==
  SelectSeq(keptSales, LAMBDA s : \A i \in DOMAIN fresh : DedupKey(fresh[i]) # DedupKey(s))
    \o fresh

\* the merge without the seen set: kept.push(s) for every new sale
MergeSalesNoDedup(keptSales, fresh) == keptSales \o fresh

\* for (const s of newSales) if (!seen.has(k)) { seen.add(k); kept.push(s) }
RECURSIVE MergeSales(_, _)
MergeSales(keptSales, fresh) ==
  IF fresh = <<>> THEN keptSales
  ELSE LET seen == {DedupKey(keptSales[i]) : i \in DOMAIN keptSales}
       IN MergeSales(IF DedupKey(Head(fresh)) \in seen THEN keptSales
                     ELSE Append(keptSales, Head(fresh)),
                     Tail(fresh))

\* nums.sort((a, b) => a - b)
RECURSIVE SortAscending(_)
InsertSorted(x, sorted) ==
  LET before == SelectSeq(sorted, LAMBDA y : y <= x)
      after == SelectSeq(sorted, LAMBDA y : y > x)
  IN before \o <<x>> \o after
SortAscending(nums) ==
  IF nums = <<>> THEN <<>>
  ELSE InsertSorted(nums[Len(nums)], SortAscending(SubSeq(nums, 1, Len(nums) - 1)))

\* median that returns the upper middle price for an even length
medianUpper(nums) ==
  LET arr == SortAscending(nums)
  IN IF arr = <<>> THEN <<>> ELSE <<2 * arr[(Len(arr) \div 2) + 1]>>

\* median of prices in cents; the result is <<>> for null, else <<m>> with m in
\* half cents, so that the mean of the two middle prices is exact.  Every
\* price_eur is a finite number (parseEbaySearchItems drops an item without a
\* price), so the filter of the code keeps every element
median(nums) ==
  LET arr == SortAscending(nums)
      mid == Len(arr) \div 2
  IN IF arr = <<>> THEN <<>>
     ELSE IF Len(arr) % 2 = 1 THEN <<2 * arr[mid + 1]>>
     ELSE <<arr[mid] + arr[mid + 1]>>

\* byCard with a bucket created on its first sale: byCard[id][bucket] ??= []
ByCardSparse(sales) ==
  [cardId \in {sales[i].cardId : i \in DOMAIN sales} |->
     [b \in {sales[i].bucket : i \in {j \in DOMAIN sales : sales[j].cardId = cardId}} |->
        LET of == SelectSeq(sales, LAMBDA s : s.cardId = cardId /\ s.bucket = b)
        IN [i \in DOMAIN of |-> of[i].price_eur]]]

\* byCard: per card of the window, per canonical bucket, the prices in order
ByCard(sales) ==
  [cardId \in {sales[i].cardId : i \in DOMAIN sales} |->
     [b \in {BUCKETS[k] : k \in DOMAIN BUCKETS} |->
        LET of == SelectSeq(sales, LAMBDA s : s.cardId = cardId /\ s.bucket = b)
        IN [i \in DOMAIN of |-> of[i].price_eur]]]

\* priceOut.byCard
PriceOut(sales) ==
  LET byCard == ByCard(sales)
  IN [cardId \in DOMAIN byCard |->
        [b \in DOMAIN byCard[cardId] |->
           [median_eur |-> median(byCard[cardId][b]), n |-> Len(byCard[cardId][b])]]]

\* the item loop's outcome for every catalog and item of this model
CollectItemTable ==
  { [cat |-> c, it |-> it, gradedOnly |-> g, sales |-> CollectItem(c, it, g, 0)] :
      c \in BuiltCatalogs \cup {EmptyCatalog}, it \in Listings, g \in BOOLEAN }

\* for (const it of items) { ... newSales.push(...) }
RECURSIVE CollectItems(_, _, _, _)
CollectItems(cat, items, gradedOnly, stamp) ==
  IF items = <<>> THEN <<>>
  ELSE LET row == CHOOSE r \in CollectItemTable :
                    r.cat = cat /\ r.it = Head(items) /\ r.gradedOnly = gradedOnly
       IN [i \in DOMAIN row.sales |-> [row.sales[i] EXCEPT !.collectedAt = stamp]]
          \o CollectItems(cat, Tail(items), gradedOnly, stamp)


files == <<catalogFile, salesFile, pricesFile, metaFile>>
locals == <<catalog, salesObj, kept, cutoff, collectedAt, newSales, q, page, pageSkipped>>
pvars == <<catalogFile, salesFile, pricesFile, metaFile, clock, env, pc, catalog, salesObj,
           kept, cutoff, collectedAt, newSales, q, page, pageSkipped, exitCode, runs,
           observed>>
tvars == <<tTitle, tCatalog, tGradedOnly, tpc, tParsed, tMatch, tSale>>
ivars == <<html, iGradedOnly, ipc, pageItems, iSales>>
fvars == <<fKind, fRetries, fI, fpc, fAttempts, fSleeps, fResult>>
avars == <<aPage, aAttempt, aLastStatus, aPayload, aAll, aTotal, apc, enSource>>
nvars == <<nKind, nInput, npc, nOnce, nTwice>>
dvars == <<dexFile, dpc, dId, dCache, dResult, dRequests, dLookups, dRuns>>
bvars == <<bData, bStrategy, bEnrichEn, bSpecies, bpc, bAgg, bJpSetIds, bI, bOut, bPrev, bBuilds>>
zvars == <<nvars, dvars, bvars>>
xvars == <<ivars, fvars, avars, zvars>>
vars == <<pvars, tvars, xvars>>

NotParsed == [lot |-> FALSE, lang |-> NULL, setCode |-> <<>>, localId |-> <<>>, bucket |-> NULL]

\* no process yet, no data/ directory
PipelineIdle ==
  /\ catalogFile = EmptyCatalog
  /\ salesFile = <<>>
  /\ pricesFile = <<>>
  /\ metaFile = <<>>
  /\ clock = 0
  /\ env = [SKIP_CATALOG |-> FALSE, STRICT_CATALOG |-> FALSE]
  /\ pc = "exited"
  /\ catalog = EmptyCatalog
  /\ salesObj = <<>>
  /\ pageSkipped = FALSE
  /\ kept = <<>>
  /\ cutoff = 0
  /\ collectedAt = 0
  /\ newSales = <<>>
  /\ q = 1
  /\ page = 1
  /\ exitCode = 0
  /\ runs = 0
  /\ observed = 0

TitleIdle ==
  /\ tTitle = <<>>
  /\ tCatalog = EmptyCatalog
  /\ tGradedOnly = FALSE
  /\ tpc = "collected"
  /\ tParsed = NotParsed
  /\ tMatch = NoMatch
  /\ tSale = <<>>

ItemIdle ==
  /\ html = <<>>
  /\ iGradedOnly = FALSE
  /\ ipc = "done"
  /\ pageItems = <<>>
  /\ iSales = <<>>

FetchIdle ==
  /\ fKind = "json"
  /\ fRetries = 0
  /\ fI = 0
  /\ fpc = "returned"
  /\ fAttempts = <<>>
  /\ fSleeps = <<>>
  /\ fResult = "null"

AdapterIdle ==
  /\ aPage = 1
  /\ aAttempt = 0
  /\ aLastStatus = 0 - 1
  /\ aPayload = <<>>
  /\ aAll = 0
  /\ aTotal = 0 - 1
  /\ apc = "done"
  /\ enSource = "none"

NormIdle ==
  /\ nKind = "pipeline"
  /\ nInput = <<>>
  /\ npc = "twice"
  /\ nOnce = <<>>
  /\ nTwice = <<>>

\* no dex_en_cache.json yet, no process
DexIdle ==
  /\ dexFile = <<>>
  /\ dpc = "exited"
  /\ dId = 0
  /\ dCache = <<>>
  /\ dResult = NULL
  /\ dRequests = 0
  /\ dLookups = 0
  /\ dRuns = 0

\* no build yet
NoCatalog == [strategy |-> "none", cards |-> <<>>]

BuildIdle ==
  /\ bData = [tcgdex |-> <<>>, enApi |-> <<>>, enFallback |-> <<>>, jp |-> <<>>]
  /\ bStrategy = "none"
  /\ bEnrichEn = FALSE
  /\ bSpecies = [known |-> {}]
  /\ bpc = "exited"
  /\ bAgg = <<>>
  /\ bJpSetIds = {}
  /\ bI = 1
  /\ bOut = <<>>
  /\ bPrev = NoCatalog
  /\ bBuilds = 0

ZIdle == NormIdle /\ DexIdle /\ BuildIdle

XIdle == ItemIdle /\ FetchIdle /\ AdapterIdle /\ ZIdle

\* ---- the title parser, the matcher and the item loop on one title

TitleInit ==
  /\ PipelineIdle
  /\ XIdle
  /\ tTitle \in Titles
  /\ tCatalog \in MatchCatalogs
  /\ tGradedOnly \in BOOLEAN
  /\ tpc = "title"
  /\ tParsed = NotParsed
  /\ tMatch = NoMatch
  /\ tSale = <<>>

ParseTitle ==
  /\ tpc = "title"
  /\ tParsed' = [lot |-> isLikelyLot(tTitle),
                 lang |-> detectLangFromTitle(tTitle),
                 setCode |-> extractSetCode(tTitle),
                 localId |-> extractLocalId(tTitle),
                 bucket |-> detectGraadBucket(tTitle)]
  /\ tpc' = "parsed"
  /\ UNCHANGED <<tTitle, tCatalog, tGradedOnly, tMatch, tSale, pvars, xvars>>

MatchTitle ==
  /\ tpc = "parsed"
  /\ tMatch' = bestMatchCard(tCatalog, tTitle)
  /\ tpc' = "matched"
  /\ UNCHANGED <<tTitle, tCatalog, tGradedOnly, tParsed, tSale, pvars, xvars>>

CollectTitle ==
  /\ tpc = "matched"
  /\ tSale' = CollectItem(tCatalog, [title |-> tTitle, price_eur |-> 2990, url |-> "itm/1"],
                          tGradedOnly, 0)
  /\ tpc' = "collected"
  /\ UNCHANGED <<tTitle, tCatalog, tGradedOnly, tParsed, tMatch, pvars, xvars>>

TitleNext == ParseTitle \/ MatchTitle \/ CollectTitle

SpecTitle == TitleInit /\ [][TitleNext]_vars

\* ---- main(): one process per run

Init ==
  /\ TitleIdle
  /\ XIdle
  /\ catalogFile = EmptyCatalog
  /\ salesFile \in {<<>>, LegacySales}
  /\ pricesFile = <<>>
  /\ metaFile = <<>>
  /\ clock = 0
  /\ env = [SKIP_CATALOG |-> FALSE, STRICT_CATALOG |-> FALSE]
  /\ pc = "exited"
  /\ catalog = EmptyCatalog
  /\ salesObj = <<>>
  /\ pageSkipped = FALSE
  /\ kept = <<>>
  /\ cutoff = 0
  /\ collectedAt = 0
  /\ newSales = <<>>
  /\ q = 1
  /\ page = 1
  /\ exitCode = 0
  /\ runs = 0
  /\ observed = 0

\* node scripts/update.js, up to the first await: the caches and catalog.json
\* are read.  No file holds a stamp that parses before the first run, so the
\* time of the first run is fixed
StartRun(skip, strict, delta) ==
  /\ pc = "exited"
  /\ runs < MaxRuns
  /\ runs = 0 => delta = Window - 5
  /\ runs' = runs + 1
  /\ clock' = clock + delta
  /\ env' = [SKIP_CATALOG |-> skip, STRICT_CATALOG |-> strict]
  /\ catalog' = catalogFile
  /\ salesObj' = <<>>
  /\ pageSkipped' = FALSE
  /\ kept' = <<>>
  /\ cutoff' = 0
  /\ collectedAt' = 0
  /\ newSales' = <<>>
  /\ q' = 1
  /\ page' = 1
  /\ exitCode' = 0
  /\ pc' = "catalog"
  /\ UNCHANGED <<files, observed, tvars, xvars>>

\* A) the build returns a catalog that validateCatalogShape accepts
BuildCatalog(built) ==
  /\ pc = "catalog"
  /\ ~env.SKIP_CATALOG
  /\ validateCatalogShape(built)
  /\ catalog' = built
  /\ catalogFile' = built
  /\ pc' = "sales"
  /\ UNCHANGED <<salesFile, pricesFile, metaFile, clock, env, salesObj, kept, cutoff,
                 collectedAt, newSales, q, page, pageSkipped, exitCode, runs, observed, tvars, xvars>>

\* the try block throws: in the build, or in validateCatalogShape
BuildFailed(outcome) == outcome.threw \/ ~validateCatalogShape(outcome.catalog)

\* the catch block, STRICT_CATALOG unset
BuildFails(outcome) ==
  /\ pc = "catalog"
  /\ ~env.SKIP_CATALOG
  /\ BuildFailed(outcome)
  /\ ~env.STRICT_CATALOG
  /\ catalog' = catalogFile
  /\ pc' = "sales"
  /\ UNCHANGED <<files, clock, env, salesObj, kept, cutoff, collectedAt, newSales, q, page,
                 pageSkipped, exitCode, runs, observed, tvars, xvars>>

\* the catch block, STRICT_CATALOG=1: process.exit(1)
BuildFailsStrict(outcome) ==
  /\ pc = "catalog"
  /\ ~env.SKIP_CATALOG
  /\ BuildFailed(outcome)
  /\ env.STRICT_CATALOG
  /\ exitCode' = 1
  /\ pc' = "exited"
  /\ UNCHANGED <<files, clock, env, locals, runs, observed, tvars, xvars>>

\* SKIP_CATALOG=1 and catalog.json holds cards
ReuseCatalog ==
  /\ pc = "catalog"
  /\ env.SKIP_CATALOG
  /\ CardsLength(catalog) # 0
  /\ pc' = "sales"
  /\ UNCHANGED <<files, clock, env, locals, exitCode, runs, observed, tvars, xvars>>

\* SKIP_CATALOG=1 and catalog.json is empty: built and written, not validated
RebuildEmptyCatalog(built) ==
  /\ pc = "catalog"
  /\ env.SKIP_CATALOG
  /\ CardsLength(catalog) = 0
  /\ catalog' = built
  /\ catalogFile' = built
  /\ pc' = "sales"
  /\ UNCHANGED <<salesFile, pricesFile, metaFile, clock, env, salesObj, kept, cutoff,
                 collectedAt, newSales, q, page, pageSkipped, exitCode, runs, observed, tvars, xvars>>

\* the same build throws: main() rejects, main().catch exits with status 1
RebuildThrows ==
  /\ pc = "catalog"
  /\ env.SKIP_CATALOG
  /\ CardsLength(catalog) = 0
  /\ exitCode' = 1
  /\ pc' = "exited"
  /\ UNCHANGED <<files, clock, env, locals, runs, observed, tvars, xvars>>

\* B) the sales of the previous run inside the window, and the run's stamp
LoadSales ==
  /\ pc = "sales"
  /\ salesObj' = salesFile
  /\ cutoff' = clock - Window
  /\ kept' = SelectSeq(salesFile, LAMBDA s : NotBefore(s.collectedAt, clock - Window))
  /\ collectedAt' = todayISO(clock)
  /\ pc' = "collect"
  /\ UNCHANGED <<files, clock, env, catalog, newSales, q, page, pageSkipped, exitCode, runs,
                 observed, tvars, xvars>>

\* the two loops move to the next page, the next query, or end
NextPage ==
  IF page < PAGES_PER_QUERY THEN q' = q /\ page' = page + 1 /\ pc' = pc
  ELSE IF q < Len(queries) THEN q' = q + 1 /\ page' = 1 /\ pc' = pc
  ELSE q' = q /\ page' = page /\ pc' = "merge"

\* a failing page that ends the run: the error leaves main()
FetchPageFatal ==
  /\ pc = "collect"
  /\ pageSkipped' = TRUE
  /\ exitCode' = 1
  /\ pc' = "exited"
  /\ UNCHANGED <<files, clock, env, catalog, salesObj, kept, cutoff, collectedAt, newSales,
                 q, page, runs, observed, tvars, xvars>>

\* C) fetchEbaySoldPageHTML throws: the page is skipped
FetchPageFails ==
  /\ pc = "collect"
  /\ pageSkipped' = TRUE
  /\ NextPage
  /\ UNCHANGED <<files, clock, env, catalog, salesObj, kept, cutoff, collectedAt, newSales,
                 exitCode, runs, observed, tvars, xvars>>

\* C) a result page with these items
FetchPage(items) ==
  /\ pc = "collect"
  /\ observed + Len(items) <= MaxListings
  /\ observed' = observed + Len(items)
  /\ newSales' = newSales \o CollectItems(catalog, items, queries[q].gradedOnly, collectedAt)
  /\ NextPage
  /\ UNCHANGED <<files, clock, env, catalog, salesObj, kept, cutoff, collectedAt, pageSkipped,
                 exitCode, runs, tvars, xvars>>

\* the merge on (url, price, cardId, bucket) and writeJson(salesFile)
PersistSales ==
  /\ pc = "merge"
  /\ kept' = MergeSales(kept, newSales)
  /\ salesFile' = MergeSales(kept, newSales)
  /\ pc' = "aggregate"
  /\ UNCHANGED <<catalogFile, pricesFile, metaFile, clock, env, catalog, salesObj, cutoff,
                 collectedAt, newSales, q, page, pageSkipped, exitCode, runs, observed, tvars, xvars>>

\* D) the medians, writeJson(prices.json), writeJson(meta.json); main() returns
PersistPrices ==
  /\ pc = "aggregate"
  /\ pricesFile' = PriceOut(kept)
  /\ metaFile' = <<[updatedAt |-> collectedAt]>>
  /\ exitCode' = 0
  /\ pc' = "exited"
  /\ UNCHANGED <<catalogFile, salesFile, clock, env, locals, runs, observed, tvars, xvars>>

PageResults == UNION {[1..k -> Listings] : k \in 0..MaxPageItems}

Next ==
  \/ \E skip \in BOOLEAN, strict \in BOOLEAN, delta \in Deltas : StartRun(skip, strict, delta)
  \/ \E built \in BuiltCatalogs : BuildCatalog(built)
  \/ \E outcome \in BuildOutcomes : BuildFails(outcome)
  \/ \E outcome \in BuildOutcomes : BuildFailsStrict(outcome)
  \/ ReuseCatalog
  \/ \E built \in BuiltCatalogs : RebuildEmptyCatalog(built)
  \/ RebuildThrows
  \/ LoadSales
  \/ FetchPageFails
  \/ \E items \in PageResults : FetchPage(items)
  \/ PersistSales
  \/ PersistPrices

Spec == Init /\ [][Next]_vars


\* ---- the price parser and the result-page parser

\* replace(/\./g, "")
NotDot(c) == c # "."
RemoveDots(text) == SelectSeq(text, NotDot)

\* (?=\s*[EUR]|\s*eur) after the character p of t, case-insensitive
EurAhead(t, p) ==
  \/ MatchAt(t, RunEnd(t, p + 1, Space) + 1, <<"EUR">>)
  \/ MatchAt(toLowerCase(t), RunEnd(t, p + 1, Space) + 1, <<"e","u","r">>)

\* end of the match of (\d+,\d{1,2}|\d+)(?=...) that starts at i, where r is
\* the end of the digits from i; 0 when there is none
PriceEndFrom(t, r) ==
  IF r + 3 <= Len(t) /\ t[r + 1] = "," /\ t[r + 2] \in Digit /\ t[r + 3] \in Digit
       /\ EurAhead(t, r + 3) THEN r + 3
  ELSE IF r + 2 <= Len(t) /\ t[r + 1] = "," /\ t[r + 2] \in Digit /\ EurAhead(t, r + 2)
       THEN r + 2
  ELSE IF EurAhead(t, r) THEN r
  ELSE 0

PriceMatchEnd(t, i) == IF t[i] \in Digit THEN PriceEndFrom(t, RunEnd(t, i, Digit)) ELSE 0

\* Number(m[1].replace(",", ".")) in cents, for the match from i to e with the
\* whole part ending at r
PriceCents(t, i, r, e) ==
  100 * DigitsToNat(SubSeq(t, i, r))
    + (IF e = r THEN 0
       ELSE IF e = r + 2 THEN 10 * DigitsToNat(SubSeq(t, e, e))
       ELSE DigitsToNat(SubSeq(t, r + 2, e)))

PriceMatches(t) == {i \in DOMAIN t : PriceMatchEnd(t, i) > 0}

PriceOfMatch(t, i) == <<PriceCents(t, i, RunEnd(t, i, Digit), PriceMatchEnd(t, i))>>

PriceOfText(t) == IF PriceMatches(t) = {} THEN <<>> ELSE PriceOfMatch(t, Min(PriceMatches(t)))

\* the price in cents as <<v>>, or <<>> for null; the numbers of the model are
\* short, so Number.isFinite holds of every one
parseEurPrice(text) == PriceOfText(RemoveDots(text))

\* the body of $(".s-item").each: the items it pushes, none or one; el.link is
\* NULL for an element without href
ItemWithPrice(title, price, link) ==
  IF link = NULL \/ price = <<>> THEN <<>>
  ELSE <<[title |-> title, price_eur |-> price[1], url |-> link]>>

ItemOfElement(el) ==
  IF Trim(el.title) = <<>> \/ Trim(el.title) = <<"S","h","o","p"," ","o","n"," ","e","B","a","y">> THEN <<>>
  ELSE ItemWithPrice(Trim(el.title), parseEurPrice(Trim(el.price)), el.link)

RECURSIVE parseEbaySearchItems(_)
parseEbaySearchItems(els) ==
  IF els = <<>> THEN <<>>
  ELSE ItemOfElement(Head(els)) \o parseEbaySearchItems(Tail(els))

\* for (const it of items) { ... newSales.push(...) }, item by item
RECURSIVE CollectEach(_, _, _, _)
CollectEach(cat, its, gradedOnly, stamp) ==
  IF its = <<>> THEN <<>>
  ELSE CollectItem(cat, Head(its), gradedOnly, stamp)
         \o CollectEach(cat, Tail(its), gradedOnly, stamp)

\* the texts of .s-item__title
ElementTitles ==
  { <<" ","P","i","k","a","c","h","u"," ","V"," ","1","8","1","/","1","6","5"," ","S","V","9","A"," ","J","A","P"," ","G","R","A","A","D"," ","9",".","5"," ">>,
    <<"M","e","l","o","e","t","t","a"," ","0","2","2","/","0","2","1"," ","J","A","P">>,
    <<"S","h","o","p"," ","o","n"," ","e","B","a","y">>,
    <<"NBSP"," ">> }

ZeroPriceText == <<"0",",","0","0"," ","EUR">>

\* the texts of .s-item__price
PriceTexts ==
  { <<"2","9",",","9","0"," ","EUR">>,
    <<"E","U","R"," ","2","9",",","9","0">>,
    <<"1",".","2","3","4",",","5","6","NBSP","EUR">>,
    ZeroPriceText,
    <<"0"," ","E","U","R">>,
    <<"1","2"," ","e","u","r">>,
    <<"1","2",",","5"," ","EUR">>,
    <<"1","2",",","3","4","5"," ","EUR">>,
    <<"5",",","0","0"," ","EUR"," ","a"," ","9",",","0","0"," ","EUR">>,
    <<"1","2","EUR">>,
    <<"1","2"," ","$">>,
    <<"7",",","5","0"," ","E","u","r","o">>,
    <<"0","0",",","5","0"," ","EUR">>,
    <<" ","3",".","0","0","0"," ","EUR"," ">>,
    <<"g","r","a","t","i","s">>,
    <<>> }

\* the href of .s-item__link
ElementLinks == {NULL, "itm/1"}

Elements == [title : ElementTitles, price : PriceTexts, link : ElementLinks]

\* the result pages: MaxPageItems elements at most
ElementPages == UNION {[1..k -> Elements] : k \in 0..MaxPageItems}

ItemCatalog ==
  Catalog(<<PikachuJa, PikachuEn, PikachuEnPromo, CharizardEn, CharizardJa, MeloettaJa, MewEn>>,
          9000, 4000)

ItemInit ==
  /\ PipelineIdle
  /\ TitleIdle
  /\ ZIdle
  /\ FetchIdle
  /\ AdapterIdle
  /\ html \in ElementPages
  /\ iGradedOnly \in BOOLEAN
  /\ ipc = "page"
  /\ pageItems = <<>>
  /\ iSales = <<>>

\* const items = parseEbaySearchItems(html)
ParsePage ==
  /\ ipc = "page"
  /\ pageItems' = parseEbaySearchItems(html)
  /\ ipc' = "items"
  /\ UNCHANGED <<html, iGradedOnly, iSales, pvars, tvars, fvars, avars, zvars>>

\* the loop over the items of the page
CollectPage ==
  /\ ipc = "items"
  /\ iSales' = CollectEach(ItemCatalog, pageItems, iGradedOnly, 0)
  /\ ipc' = "done"
  /\ UNCHANGED <<html, iGradedOnly, pageItems, pvars, tvars, fvars, avars, zvars>>

ItemNext == ParsePage \/ CollectPage

SpecItem == ItemInit /\ [][ItemNext]_vars

\* ---- fetchJson and fetchHtml: one call

\* retries = 4 of the two signatures
DefaultRetries == 4

\* the retries arguments of the calls: the default, 2 of the TCGdex calls, and
\* none
RetryCounts == {0, 2, DefaultRetries}

\* sleep(400 * (i + 1)) of fetchJson, sleep(500 * (i + 1)) of fetchHtml
JsonBaseMs == 400
HtmlBaseMs == 500

\* a sleep of the base only, whatever the attempt
BackoffMsFlat(kind, i) == IF kind = "json" THEN JsonBaseMs ELSE HtmlBaseMs

BackoffMs(kind, i) == (IF kind = "json" THEN JsonBaseMs ELSE HtmlBaseMs) * (i + 1)

\* what one await fetch(url, opts) ends with: status 0 is a rejected fetch (no
\* response); the body of a response is JSON text or other text
Responses ==
  {[status |-> 0, body |-> "none"]}
    \cup [status : {200}, body : {"json", "text"}]
    \cup [status : {403, 404, 429, 500, 503}, body : {"text"}]

\* resp.ok
RespOk(a) == a.status >= 200 /\ a.status <= 299

\* the try block throws: fetch rejects, or resp.json() rejects on a body that
\* is not JSON; resp.text() takes any body
AttemptThrows(kind, a) == a.status = 0 \/ (RespOk(a) /\ kind = "json" /\ a.body # "json")

\* the attempt ends in await sleep(...); continue
AttemptRetried(kind, a, i, retries) ==
  /\ i < retries
  /\ \/ AttemptThrows(kind, a)
     \/ ~RespOk(a) /\ (a.status = 429 \/ a.status >= 500)

\* the attempt ends in return await resp.json() or resp.text()
AttemptReturnsBody(kind, a) == RespOk(a) /\ ~AttemptThrows(kind, a)

FetchInit ==
  /\ PipelineIdle
  /\ TitleIdle
  /\ ZIdle
  /\ ItemIdle
  /\ AdapterIdle
  /\ fKind \in {"json", "html"}
  /\ fRetries \in RetryCounts
  /\ fI = 0
  /\ fpc = "request"
  /\ fAttempts = <<>>
  /\ fSleeps = <<>>
  /\ fResult = "pending"

\* one pass of the loop body up to its sleep or its return
Respond(a) ==
  /\ fpc = "request"
  /\ fI <= fRetries
  /\ fAttempts' = Append(fAttempts, a)
  /\ IF AttemptRetried(fKind, a, fI, fRetries)
       THEN fpc' = "sleep" /\ fResult' = fResult
       ELSE /\ fpc' = "returned"
            /\ fResult' = IF AttemptReturnsBody(fKind, a) THEN "body" ELSE "null"
  /\ UNCHANGED <<fKind, fRetries, fI, fSleeps, pvars, tvars, ivars, avars, zvars>>

\* await sleep(base * (i + 1)); continue
Backoff ==
  /\ fpc = "sleep"
  /\ fSleeps' = Append(fSleeps, BackoffMs(fKind, fI))
  /\ fI' = fI + 1
  /\ fpc' = "request"
  /\ UNCHANGED <<fKind, fRetries, fAttempts, fResult, pvars, tvars, ivars, avars, zvars>>

FetchNext == (\E a \in Responses : Respond(a)) \/ Backoff

SpecFetch == FetchInit /\ [][FetchNext]_vars

\* every fetch settles (the HTTP client times out) and every timer fires
SpecFetchFair == SpecFetch /\ WF_vars(FetchNext)

\* ---- fetchPokemonTcgEnCards and the English part of
\* ---- buildCatalogFromSplitSources

\* the cards of one page and the declared totalCount, scaled down from the
\* page size of 250
MaxPageCards == 2
MaxTotalCount == 3

\* for (let attempt = 0; attempt < 3; attempt++)
AdapterAttempts == 3

\* payload after resp.json(): <<>> is null (the body is not JSON); hasData is
\* whether the object has a data array, data its length
Payloads ==
  {<<>>, <<[hasData |-> FALSE, data |-> 0, totalCount |-> 0]>>}
    \cup {<<[hasData |-> TRUE, data |-> d, totalCount |-> t]>> :
            d \in 0..MaxPageCards, t \in 0..MaxTotalCount}

\* what one await fetch(url) ends with; status 0 is a rejected fetch, kept in
\* lastStatus as "network_error"
AdapterResponses ==
  [status : {0}, payload : {<<>>}]
    \cup [status : {200}, payload : Payloads]
    \cup [status : {401, 403, 404, 429, 500}, payload : {<<>>}]

\* the attempt ends in sleep and continue: a rejected fetch, 429 or 5xx
AdapterContinues(a) == a.status = 0 \/ a.status = 429 \/ a.status >= 500

\* !payload?.data
NoData(payload) == IF payload = <<>> THEN TRUE ELSE ~payload[1].hasData

AdapterInit ==
  /\ PipelineIdle
  /\ TitleIdle
  /\ ZIdle
  /\ ItemIdle
  /\ FetchIdle
  /\ aPage = 1
  /\ aAttempt = 0
  /\ aLastStatus = 0 - 1
  /\ aPayload = <<>>
  /\ aAll = 0
  /\ aTotal = 0 - 1
  /\ apc = "attempt"
  /\ enSource = "none"

\* one pass of the retry loop of a page
AdapterAttempt(a) ==
  /\ apc = "attempt"
  /\ aAttempt < AdapterAttempts
  /\ aLastStatus' = a.status
  /\ IF AdapterContinues(a)
       THEN /\ aAttempt' = aAttempt + 1
            /\ aPayload' = aPayload
            /\ apc' = IF aAttempt + 1 < AdapterAttempts THEN "attempt" ELSE "page"
       ELSE /\ aAttempt' = aAttempt
            /\ aPayload' = IF a.status = 200 THEN a.payload ELSE aPayload
            /\ apc' = "page"
  /\ UNCHANGED <<aPage, aAll, aTotal, enSource, pvars, tvars, ivars, fvars, zvars>>

\* after the retry loop: if (!payload?.data) throw
PageFails ==
  /\ apc = "page"
  /\ NoData(aPayload)
  /\ apc' = "threw"
  /\ UNCHANGED <<aPage, aAttempt, aLastStatus, aPayload, aAll, aTotal, enSource,
                 pvars, tvars, ivars, fvars, zvars>>

\* totalCount and all are updated; an empty page ends the loop, as does
\* all.length >= totalCount; otherwise the next page starts
PageTaken ==
  /\ apc = "page"
  /\ ~NoData(aPayload)
  /\ aTotal' = aPayload[1].totalCount
  /\ aAll' = aAll + aPayload[1].data
  /\ IF aPayload[1].data = 0
       THEN apc' = "returned" /\ UNCHANGED <<aPage, aAttempt, aLastStatus, aPayload>>
       ELSE /\ aPage' = aPage + 1
            /\ IF aAll + aPayload[1].data < aPayload[1].totalCount
                 THEN /\ apc' = "attempt"
                      /\ aAttempt' = 0
                      /\ aLastStatus' = 0 - 1
                      /\ aPayload' = <<>>
                 ELSE apc' = "returned" /\ UNCHANGED <<aAttempt, aLastStatus, aPayload>>
  /\ UNCHANGED <<enSource, pvars, tvars, ivars, fvars, zvars>>

\* the try block of buildCatalogFromSplitSources goes on with fromEnApi
UsePrimary ==
  /\ apc = "returned"
  /\ enSource' = "primary"
  /\ apc' = "done"
  /\ UNCHANGED <<aPage, aAttempt, aLastStatus, aPayload, aAll, aTotal, pvars, tvars, ivars,
                 fvars, zvars>>

\* its catch block calls buildEnglishCatalogFromTcgdexFallback
UseFallback ==
  /\ apc = "threw"
  /\ enSource' = "fallback"
  /\ apc' = "done"
  /\ UNCHANGED <<aPage, aAttempt, aLastStatus, aPayload, aAll, aTotal, pvars, tvars, ivars,
                 fvars, zvars>>

AdapterNext ==
  \/ \E a \in AdapterResponses : AdapterAttempt(a)
  \/ PageFails
  \/ PageTaken
  \/ UsePrimary
  \/ UseFallback

SpecAdapter == AdapterInit /\ [][AdapterNext]_vars

\* ------------------------------------------- the two normalizers, twice

\* the longest text the normalizers are tried on, beyond the titles
MaxNormLen == 3

NormAlphabet == {"J", "a", "p", "e", "n", " ", "E_ACUTE", "SCRIPT_L"}

RECURSIVE TextsOfLength(_)
TextsOfLength(k) ==
  IF k = 0 THEN {<<>>}
  ELSE {Append(s, c) : s \in TextsOfLength(k - 1), c \in NormAlphabet}

NormInputs ==
  UNION {TextsOfLength(k) : k \in 0..MaxNormLen} \cup Titles
    \cup {<<"P","o","k","e_acute","m","o","n","TM_SIGN"," ","P","i","k","a","c","h","u"," ","V"," ","J","P","N">>, <<"C","h","a","r","i","z","a","r","d"," ","e","x"," "," ","E","N","G"," "," ","g","i","a","p","p","o","n","e","s","e">>}

\* the lowercasing moved after the decomposition
normLowerLast(s) == Trim(CollapseSpaces(StripMarks(toLowerCase(NFKD(s)))))

\* the alternative of a language pattern that matches at i: the word and
\* the \b on both sides; <<>> when none does
AliasAt(t, i, aliases) ==
  IF \E w \in aliases : Boundary(t, i) /\ MatchAt(t, i, w) /\ Boundary(t, i + Len(w))
  THEN CHOOSE w \in aliases : Boundary(t, i) /\ MatchAt(t, i, w) /\ Boundary(t, i + Len(w))
  ELSE <<>>

\* t.replace(/\b(w1|w2|...)\b/g, " to "), from index i on
RECURSIVE ReplaceAliasesFrom(_, _, _, _)
ReplaceAliasesFrom(t, i, aliases, to) ==
  IF i > Len(t) THEN <<>>
  ELSE IF AliasAt(t, i, aliases) # <<>>
  THEN <<" ">> \o to \o <<" ">>
         \o ReplaceAliasesFrom(t, i + Len(AliasAt(t, i, aliases)), aliases, to)
  ELSE <<t[i]>> \o ReplaceAliasesFrom(t, i + 1, aliases, to)

\* the "token lingua comuni" of assets/app.js
ReplaceLanguageTokens(t) ==
  ReplaceAliasesFrom(
    ReplaceAliasesFrom(t, 1, {<<"j","a","p">>, <<"j","p","n">>, <<"j","p">>, <<"g","i","a","p","p","o","n","e","s","e">>}, <<"j","a">>),
    1, {<<"e","n","g">>, <<"e","n">>, <<"e","n","g","l","i","s","h">>, <<"i","n","g","l","e","s","e">>}, <<"e","n">>)

\* norm of assets/app.js, the normalizer of the search box
normQuery(s) == Trim(CollapseSpaces(ReplaceLanguageTokens(norm(s))))

Normalize(kind, s) == IF kind = "pipeline" THEN norm(s) ELSE normQuery(s)

OthersOfNorm == <<pvars, tvars, ivars, fvars, avars, dvars, bvars>>

NormInit ==
  /\ PipelineIdle
  /\ TitleIdle
  /\ ItemIdle
  /\ FetchIdle
  /\ AdapterIdle
  /\ DexIdle
  /\ BuildIdle
  /\ nKind \in {"pipeline", "query"}
  /\ nInput \in NormInputs
  /\ npc = "input"
  /\ nOnce = <<>>
  /\ nTwice = <<>>

\* norm(s)
NormOnce ==
  /\ npc = "input"
  /\ nOnce' = Normalize(nKind, nInput)
  /\ npc' = "once"
  /\ UNCHANGED <<nKind, nInput, nTwice, OthersOfNorm>>

\* norm(norm(s))
NormTwice ==
  /\ npc = "once"
  /\ nTwice' = Normalize(nKind, nOnce)
  /\ npc' = "twice"
  /\ UNCHANGED <<nKind, nInput, nOnce, OthersOfNorm>>

NormNext == NormOnce \/ NormTwice

SpecNorm == NormInit /\ [][NormNext]_vars

\* ------------------------------------------------- the dexId -> name cache

MaxDexRuns == 2
MaxDexLookups == 3

\* national dex numbers looked up
DexIds == {6, 25}

\* the object of dex_en_cache.json: the name of a dexId, NULL when the
\* object has no such key
NoEntries == [i \in DexIds |-> NULL]

\* readJson(DEX_CACHE_FILE, {}): the file is <<>> when missing
ReadDexCache(file) == IF file = <<>> THEN NoEntries ELSE file[1]

\* what fetchJson returns for pokemon-species/{dexId}: null, or the body
\* with the name of its names[] entry of language en and its name slug
\* (NULL when absent); PokeAPI need not answer twice alike
SpeciesBodies ==
  [en : {NULL, "Charizard", "Pikachu", "Pikachu (renamed)"}, name : {NULL, "slug"}]

SpeciesAnswers == {<<>>} \cup {<<j>> : j \in SpeciesBodies}

\* (j.names || []).find(x => x.language?.name === "en")?.name || j.name || null
NameEnOf(j) == IF j.en # NULL THEN j.en ELSE j.name

\* a write that keeps only the entry just resolved
DexCacheWithOnly(cache, dexId, nameEn) ==
  IF nameEn # NULL THEN [i \in DexIds |-> IF i = dexId THEN nameEn ELSE NULL] ELSE cache

\* if (nameEn) cache[dexId] = nameEn
DexCacheWith(cache, dexId, nameEn) ==
  IF nameEn # NULL THEN [cache EXCEPT ![dexId] = nameEn] ELSE cache

OthersOfDex == <<pvars, tvars, ivars, fvars, avars, nvars, bvars>>

DexInit ==
  /\ PipelineIdle
  /\ TitleIdle
  /\ ItemIdle
  /\ FetchIdle
  /\ AdapterIdle
  /\ NormIdle
  /\ BuildIdle
  /\ DexIdle

\* main(): if (!fs.existsSync(DEX_CACHE_FILE)) writeJson(DEX_CACHE_FILE, {})
DexStartRun ==
  /\ dpc = "exited"
  /\ dRuns < MaxDexRuns
  /\ dRuns' = dRuns + 1
  /\ dexFile' = IF dexFile = <<>> THEN <<NoEntries>> ELSE dexFile
  /\ dpc' = "idle"
  /\ UNCHANGED <<dId, dCache, dResult, dRequests, dLookups, OthersOfDex>>

\* the process ends; data/ stays (the workflow commits it)
DexEndRun ==
  /\ dpc = "idle"
  /\ dpc' = "exited"
  /\ UNCHANGED <<dexFile, dId, dCache, dResult, dRequests, dLookups, dRuns, OthersOfDex>>

\* the call up to its return on a hit, or up to the await of fetchJson
DexLookup(dexId) ==
  /\ dpc = "idle"
  /\ dLookups < MaxDexLookups
  /\ dLookups' = dLookups + 1
  /\ dId' = dexId
  /\ dCache' = ReadDexCache(dexFile)
  /\ IF ReadDexCache(dexFile)[dexId] # NULL
     THEN dResult' = ReadDexCache(dexFile)[dexId] /\ dpc' = "idle"
     ELSE dResult' = dResult /\ dpc' = "fetching"
  /\ UNCHANGED <<dexFile, dRequests, dRuns, OthersOfDex>>

\* fetchJson has sent its requests and returned null
DexFetchFailed ==
  /\ dpc = "fetching"
  /\ dRequests' = dRequests + 1
  /\ dResult' = NULL
  /\ dpc' = "idle"
  /\ UNCHANGED <<dexFile, dId, dCache, dLookups, dRuns, OthersOfDex>>

\* fetchJson has returned the body j
DexFetched(j) ==
  /\ dpc = "fetching"
  /\ dRequests' = dRequests + 1
  /\ dCache' = DexCacheWith(dCache, dId, NameEnOf(j))
  /\ dexFile' = IF NameEnOf(j) # NULL
                THEN <<DexCacheWith(dCache, dId, NameEnOf(j))>> ELSE dexFile
  /\ dResult' = NameEnOf(j)
  /\ dpc' = "idle"
  /\ UNCHANGED <<dId, dLookups, dRuns, OthersOfDex>>

DexNext ==
  \/ DexStartRun
  \/ DexEndRun
  \/ \E dexId \in DexIds : DexLookup(dexId)
  \/ DexFetchFailed
  \/ \E j \in SpeciesBodies : DexFetched(j)

SpecDex == DexInit /\ [][DexNext]_vars

\* ---------------------------------------------------- the catalog builders

MaxBuilds == 2

\* /[぀-ヿ㐀-鿿]/.test(s), among the characters of the model
JapaneseChars == {"KANA_PI", "KANA_KA", "KANA_CHU", "KANA_U", "KANA_RI", "KANA_ZA", "KANA_DO"}
hasJapaneseChars(s) == \E i \in DOMAIN s : s[i] \in JapaneseChars

\* a || b on two strings
OrElse(a, b) == IF a # <<>> THEN a ELSE b

PikachuKana == <<"KANA_PI","KANA_KA","KANA_CHU","KANA_U">>

\* what the sources return, the same in every run: the cards of the TCGdex
\* sets in walking order (en, then ja), the rows of api.pokemontcg.io (<<>>
\* when the adapter throws, else <<rows>>), the cards of the TCGdex English
\* fallback, the cards of the Limitless set pages.  A string is <<>> and a
\* card id NULL when the source does not give it; dexId 0 stands for no
\* nationalPokedexNumbers
TcgdexCards ==
  << [lang |-> "en", setId |-> <<"s","v","0","9">>, localId |-> <<"1","8","1">>, name |-> <<"P","i","k","a","c","h","u"," ","V">>, id |-> "sv09-181"],
     [lang |-> "en", setId |-> <<"s","v","0","9">>, localId |-> <<"1","8","2">>, name |-> <<"P","i","k","a","c","h","u"," ","V">>, id |-> "sv09-182"],
     [lang |-> "en", setId |-> <<"s","v","2","a">>, localId |-> <<"0","0","6">>, name |-> <<"C","h","a","r","i","z","a","r","d"," ","e","x">>, id |-> "sv2a-006"],
     [lang |-> "ja", setId |-> <<"S","V","9">>, localId |-> <<"0","2","5">>, name |-> PikachuKana, id |-> "SV9-025"],
     [lang |-> "ja", setId |-> <<"S","V","9">>, localId |-> <<"0","2","6">>, name |-> <<>>, id |-> NULL],
     [lang |-> "ja", setId |-> <<"s","v","9","a">>, localId |-> <<"1","8","1">>, name |-> PikachuKana, id |-> "sv9a-181"] >>

\* a set that TCGdex lists under en and under ja
TcgdexCardsSharedSet ==
  << [lang |-> "en", setId |-> <<"s","v","0","9">>, localId |-> <<"1","8","1">>, name |-> <<"P","i","k","a","c","h","u"," ","V">>, id |-> "sv09-181"],
     [lang |-> "ja", setId |-> <<"s","v","0","9">>, localId |-> <<"1","8","1">>, name |-> PikachuKana, id |-> "sv09-181"],
     [lang |-> "ja", setId |-> <<"s","v","0","9">>, localId |-> <<"2","0","0">>, name |-> PikachuKana, id |-> "sv09-200"] >>

PokemonTcgRows ==
  << [setId |-> <<"s","v","9">>, number |-> <<"1","8","1">>, name |-> <<"P","i","k","a","c","h","u"," ","V">>, dexId |-> 25],
     [setId |-> <<"s","v","9">>, number |-> <<"1","8","2">>, name |-> <<"P","i","k","a","c","h","u"," ","V">>, dexId |-> 0],
     [setId |-> <<"s","v","9">>, number |-> <<"1","8","3">>, name |-> <<>>, dexId |-> 0] >>

FallbackCards ==
  << [setId |-> <<"s","v","0","9">>, localId |-> <<"1","8","1">>, name |-> <<"P","i","k","a","c","h","u"," ","V">>],
     [setId |-> <<"s","v","0","9">>, localId |-> <<>>, name |-> <<"P","i","k","a","c","h","u"," ","V">>] >>

LimitlessCards ==
  << [setId |-> <<"S","V","9","a">>, number |-> <<"1","8","1">>, nameJa |-> PikachuKana, sourceId |-> TRUE],
     [setId |-> <<"S","V","9","a">>, number |-> <<"1","8","2">>, nameJa |-> <<"P","i","k","a","c","h","u">>, sourceId |-> TRUE],
     [setId |-> <<"S","V","9","a">>, number |-> <<"1","8","3">>, nameJa |-> <<>>, sourceId |-> TRUE] >>

SourceSnapshots ==
  { [tcgdex |-> TcgdexCards, enApi |-> <<PokemonTcgRows>>, enFallback |-> FallbackCards,
     jp |-> LimitlessCards],
    [tcgdex |-> TcgdexCardsSharedSet, enApi |-> <<>>, enFallback |-> FallbackCards,
     jp |-> SubSeq(LimitlessCards, 1, 2)],
    [tcgdex |-> SubSeq(TcgdexCards, 1, 4), enApi |-> <<SubSeq(PokemonTcgRows, 1, 1)>>,
     enFallback |-> FallbackCards, jp |-> <<>>] }

\* poke_species_name_map.json: empty, or with the entry of one species
SpeciesMaps ==
  { [known |-> {}],
    [known |-> {PikachuKana}] }

\* speciesMap[nameJa]: <<>> or <<{ enName, pokemonKey }>>
SpeciesHit(species, nameJa) ==
  IF nameJa \in species.known
  THEN <<[enName |-> <<"P","i","k","a","c","h","u">>, pokemonKey |-> <<"p","i","k","a","c","h","u">>]>> ELSE <<>>

\* what getPokemonNameEnByDexId and getPokemonKeyEnByDexId return for the
\* dexId of a card, <<>> for null: both fail, the first fails and the second
\* succeeds, or the name is resolved (and the key is then read from the cache)
DexLookups ==
  { [name |-> <<>>, key |-> <<>>],
    [name |-> <<>>, key |-> <<"p","i","k","a","c","h","u">>],
    [name |-> <<"P","i","k","a","c","h","u">>, key |-> <<"p","i","k","a","c","h","u">>] }

\* fetchLimitlessCardDetail: dexId (0 for null) and nameJa of the card page
CardDetails == [dexId : {0, 25}, nameJa : {<<>>, PikachuKana}]

LangSuffix(lang) == IF lang = "ja" THEN <<"j","a">> ELSE <<"e","n">>

\* an id without the card number
CardIdNoNumber(setId, number, nameNorm, lang) ==
  setId \o <<"-">> \o nameNorm \o <<"-">> \o LangSuffix(lang)

\* `${setId}-${number}-${norm(name)}-${lang}`
CardId(setId, number, nameNorm, lang) ==
  setId \o <<"-">> \o number \o <<"-">> \o nameNorm \o <<"-">> \o LangSuffix(lang)

\* ---- buildCatalogFromTCGdex

\* the value of agg for a new key
NewAggregate(c) ==
  [setId |-> c.setId, number |-> c.localId, nameEn |-> <<>>, nameJa |-> <<>>,
   cardIdEn |-> NULL, cardIdJa |-> NULL, pokemonKey |-> <<>>]

\* prev.nameEn = name or prev.nameJa = name, with name = c.name || "Unknown"
WithCard(prev, c) ==
  IF c.lang = "en"
  THEN [prev EXCEPT !.nameEn = OrElse(c.name, <<"U","n","k","n","o","w","n">>),
                    !.cardIdEn = IF c.id # NULL THEN c.id ELSE @]
  ELSE [prev EXCEPT !.nameJa = OrElse(c.name, <<"U","n","k","n","o","w","n">>),
                    !.cardIdJa = IF c.id # NULL THEN c.id ELSE @]

\* the position of the key setId|localId in agg, in a set
AggregateAt(agg, c) ==
  {i \in DOMAIN agg : agg[i].setId = c.setId /\ agg[i].number = c.localId}

\* agg.set(key, prev) for one card
AggregateCard(agg, c, at) ==
  IF c.setId = <<>> \/ c.localId = <<>> THEN agg
  ELSE IF at = {} THEN Append(agg, WithCard(NewAggregate(c), c))
  ELSE [agg EXCEPT ![Min(at)] = WithCard(@, c)]

\* the walk over the sets and cards of both languages: agg in insertion order
RECURSIVE Aggregate(_, _)
Aggregate(agg, cards) ==
  IF cards = <<>> THEN agg
  ELSE Aggregate(AggregateCard(agg, Head(cards), AggregateAt(agg, Head(cards))), Tail(cards))

\* jpSetIds: the sets seen under /ja
JpSetIds(cards) ==
  {cards[i].setId : i \in {k \in DOMAIN cards : cards[k].lang = "ja" /\ cards[k].setId # <<>>}}

inferPrintingLangFromSetId(jp, setId) ==
  IF setId \in jp THEN "ja" ELSE inferLangFromSetCode(setId)

\* the enrichment of a card of a Japanese set from its detail
EnrichJa(v, hasDex, lookup, hit) ==
  IF hasDex
  THEN [v EXCEPT !.nameEn = IF @ = <<>> THEN lookup.name ELSE @,
                 !.pokemonKey = IF @ = <<>> THEN lookup.key ELSE @]
  ELSE IF v.nameJa # <<>> /\ hit # <<>>
  THEN [v EXCEPT !.nameEn = IF @ = <<>> THEN hit[1].enName ELSE @,
                 !.pokemonKey = IF @ = <<>> THEN hit[1].pokemonKey ELSE @]
  ELSE v

\* the body of the enrichment loop for one value of agg (images left out)
EnrichValue(v, inferred, enrichEn, hasDex, lookup, hit) ==
  IF inferred = "ja" /\ v.cardIdJa # NULL /\ (v.nameEn = <<>> \/ v.pokemonKey = <<>>)
  THEN EnrichJa(v, hasDex, lookup, hit)
  ELSE IF inferred # "ja" /\ enrichEn /\ v.cardIdEn # NULL /\ v.pokemonKey = <<>> /\ hasDex
  THEN [v EXCEPT !.pokemonKey = lookup.key]
  ELSE v

\* a record of catalog.cards (set name, rarity and images left out)
CatalogCard(setId, number, idName, lang, name, v, key) ==
  [id |-> CardId(setId, number, norm(idName), lang), name |-> name, nameEn |-> v.nameEn,
   nameJa |-> v.nameJa, pokemonKey |-> key, lang |-> lang, setId |-> setId,
   number |-> number]

\* v.pokemonKey || (v.nameEn ? norm(v.nameEn) : null)
KeyOrName(v) == OrElse(v.pokemonKey, IF v.nameEn # <<>> THEN norm(v.nameEn) ELSE <<>>)

\* the records one value of agg explodes into
ExplodeValue(v, inferred) ==
  IF inferred = "ja"
  THEN IF OrElse(v.nameJa, v.nameEn) = <<>> THEN <<>>
       ELSE <<CatalogCard(v.setId, v.number, OrElse(v.nameEn, OrElse(v.nameJa, v.nameEn)),
                          "ja", OrElse(v.nameJa, v.nameEn), v, KeyOrName(v))>>
  ELSE (IF v.nameEn = <<>> THEN <<>>
        ELSE <<CatalogCard(v.setId, v.number, v.nameEn, "en", v.nameEn, v,
                           OrElse(v.pokemonKey, norm(v.nameEn)))>>)
       \o (IF v.nameJa = <<>> THEN <<>>
           ELSE <<CatalogCard(v.setId, v.number, OrElse(v.nameEn, v.nameJa), "ja",
                              v.nameJa, v, KeyOrName(v))>>)

RECURSIVE Explode(_, _)
Explode(agg, jp) ==
  IF agg = <<>> THEN <<>>
  ELSE ExplodeValue(Head(agg), inferPrintingLangFromSetId(jp, Head(agg).setId))
         \o Explode(Tail(agg), jp)

\* ---- buildCatalogFromSplitSources

\* the English card of one row of api.pokemontcg.io
SplitEnCard(c, lookup) ==
  IF c.setId = <<>> \/ c.number = <<>> \/ c.name = <<>> THEN <<>>
  ELSE <<CatalogCard(toLowerCase(c.setId), c.number, c.name, "en", c.name,
                     [nameEn |-> c.name, nameJa |-> <<>>],
                     IF c.dexId # 0 THEN lookup.key ELSE norm(c.name))>>

\* the English card of one card of buildEnglishCatalogFromTcgdexFallback
FallbackCard(c) ==
  IF c.setId = <<>> \/ c.localId = <<>> \/ c.name = <<>> THEN <<>>
  ELSE <<CatalogCard(c.setId, c.localId, c.name, "en", c.name,
                     [nameEn |-> c.name, nameJa |-> <<>>], norm(c.name))>>

RECURSIVE FallbackCatalog(_)
FallbackCatalog(cards) ==
  IF cards = <<>> THEN <<>> ELSE FallbackCard(Head(cards)) \o FallbackCatalog(Tail(cards))

\* 1) the species map on a nameJa with Japanese characters
JaFirstHit(c, species) ==
  IF c.nameJa # <<>> /\ hasJapaneseChars(c.nameJa) THEN SpeciesHit(species, c.nameJa) ELSE <<>>

\* 2) whether the card page is fetched
MustDetail(c, hit) ==
  /\ hit = <<>>
  /\ c.sourceId
  /\ (c.nameJa = <<>> \/ ~hasJapaneseChars(c.nameJa))

\* nameJa after the card page
JaNameAfter(c, must, detail) ==
  IF must /\ detail.nameJa # <<>> /\ hasJapaneseChars(detail.nameJa) THEN detail.nameJa
  ELSE c.nameJa

\* the species map entry in force after the card page
JaHitAfter(hit, must, nameJa, species) ==
  IF must /\ nameJa # <<>> /\ hasJapaneseChars(nameJa) /\ SpeciesHit(species, nameJa) # <<>>
  THEN SpeciesHit(species, nameJa) ELSE hit

\* 3) nameEn and pokemonKey, from the species map or else from the dexId
JaNames(nameJa, hit, dexId, lookup) ==
  IF hit # <<>>
  THEN [nameJa |-> nameJa,
        nameEn |-> OrElse(hit[1].enName, IF dexId # 0 THEN lookup.name ELSE <<>>),
        pokemonKey |-> OrElse(hit[1].pokemonKey, IF dexId # 0 THEN lookup.key ELSE <<>>)]
  ELSE [nameJa |-> nameJa,
        nameEn |-> IF dexId # 0 THEN lookup.name ELSE <<>>,
        pokemonKey |-> IF dexId # 0 THEN lookup.key ELSE <<>>]

\* out.push({ id: ..., name: nameJa || nameEn || `${setId} ${number}`, ... })
JaCardOf(setId, number, v) ==
  <<CatalogCard(setId, number,
                OrElse(v.nameEn, OrElse(v.nameJa, setId \o <<"-">> \o number)), "ja",
                OrElse(v.nameJa, OrElse(v.nameEn, setId \o <<" ">> \o number)),
                v, KeyOrName(v))>>

SplitJaNames(c, hit, must, detail, species, lookup) ==
  JaNames(JaNameAfter(c, must, detail),
          JaHitAfter(hit, must, JaNameAfter(c, must, detail), species),
          IF must THEN detail.dexId ELSE 0, lookup)

\* the Japanese card of one Limitless card
SplitJaCard(c, species, detail, lookup) ==
  IF c.setId = <<>> \/ c.number = <<>> THEN <<>>
  ELSE JaCardOf(c.setId, c.number,
                SplitJaNames(c, JaFirstHit(c, species),
                             MustDetail(c, JaFirstHit(c, species)), detail, species, lookup))

\* ---- one build after the other on the same sources

OthersOfBuild == <<pvars, tvars, ivars, fvars, avars, nvars, dvars>>

CatalogInit ==
  /\ PipelineIdle
  /\ TitleIdle
  /\ ItemIdle
  /\ FetchIdle
  /\ AdapterIdle
  /\ NormIdle
  /\ DexIdle
  /\ bData \in SourceSnapshots
  /\ bStrategy = "none"
  /\ bEnrichEn = FALSE
  /\ bSpecies = [known |-> {}]
  /\ bpc = "exited"
  /\ bAgg = <<>>
  /\ bJpSetIds = {}
  /\ bI = 1
  /\ bOut = <<>>
  /\ bPrev = NoCatalog
  /\ bBuilds = 0

\* a run starts its catalog phase: CATALOG_STRATEGY, ENRICH_TCGDEX_EN_POKEMONKEY
\* and the species map on disk
StartBuild(strategy, enrichEn, species) ==
  /\ bpc = "exited"
  /\ bBuilds < MaxBuilds
  /\ bBuilds' = bBuilds + 1
  /\ bPrev' = [strategy |-> bStrategy, cards |-> bOut]
  /\ bStrategy' = strategy
  /\ bEnrichEn' = enrichEn
  /\ bSpecies' = species
  /\ bAgg' = <<>>
  /\ bJpSetIds' = {}
  /\ bI' = 1
  /\ bOut' = <<>>
  /\ bpc' = IF strategy = "tcgdex" THEN "walk" ELSE "en"
  /\ UNCHANGED <<bData, OthersOfBuild>>

\* the loops over langs, sets and cards
WalkSets ==
  /\ bpc = "walk"
  /\ bAgg' = Aggregate(<<>>, bData.tcgdex)
  /\ bJpSetIds' = JpSetIds(bData.tcgdex)
  /\ bI' = 1
  /\ bpc' = "enrich"
  /\ UNCHANGED <<bData, bStrategy, bEnrichEn, bSpecies, bOut, bPrev, bBuilds, OthersOfBuild>>

\* one pass of the enrichment loop
EnrichNext(hasDex, lookup) ==
  /\ bpc = "enrich"
  /\ bI <= Len(bAgg)
  /\ bAgg' = [bAgg EXCEPT ![bI] =
                EnrichValue(@, inferPrintingLangFromSetId(bJpSetIds, @.setId), bEnrichEn,
                            hasDex, lookup, SpeciesHit(bSpecies, @.nameJa))]
  /\ bI' = bI + 1
  /\ UNCHANGED <<bData, bStrategy, bEnrichEn, bSpecies, bpc, bJpSetIds, bOut, bPrev, bBuilds,
                 OthersOfBuild>>

\* the explosion into records, return { cards: out }
ExplodeAll ==
  /\ bpc = "enrich"
  /\ bI > Len(bAgg)
  /\ bOut' = Explode(bAgg, bJpSetIds)
  /\ bpc' = "done"
  /\ UNCHANGED <<bData, bStrategy, bEnrichEn, bSpecies, bAgg, bJpSetIds, bI, bPrev, bBuilds,
                 OthersOfBuild>>

\* fetchPokemonTcgEnCards throws: the TCGdex English fallback
EnFallback ==
  /\ bpc = "en"
  /\ bData.enApi = <<>>
  /\ bOut' = FallbackCatalog(bData.enFallback)
  /\ bI' = 1
  /\ bpc' = "jp"
  /\ UNCHANGED <<bData, bStrategy, bEnrichEn, bSpecies, bAgg, bJpSetIds, bPrev, bBuilds,
                 OthersOfBuild>>

EnRows == IF bData.enApi = <<>> THEN <<>> ELSE bData.enApi[1]

\* one pass of the loop over the rows of api.pokemontcg.io
EnNext(lookup) ==
  /\ bpc = "en"
  /\ bData.enApi # <<>>
  /\ bI <= Len(EnRows)
  /\ bOut' = bOut \o SplitEnCard(EnRows[bI], lookup)
  /\ bI' = bI + 1
  /\ UNCHANGED <<bData, bStrategy, bEnrichEn, bSpecies, bpc, bAgg, bJpSetIds, bPrev, bBuilds,
                 OthersOfBuild>>

\* the loop has ended: fetchJapaneseCatalogCards
EnDone ==
  /\ bpc = "en"
  /\ bData.enApi # <<>>
  /\ bI > Len(EnRows)
  /\ bI' = 1
  /\ bpc' = "jp"
  /\ UNCHANGED <<bData, bStrategy, bEnrichEn, bSpecies, bAgg, bJpSetIds, bOut, bPrev, bBuilds,
                 OthersOfBuild>>

\* one pass of the loop over jpRaw
JaNext(detail, lookup) ==
  /\ bpc = "jp"
  /\ bI <= Len(bData.jp)
  /\ bOut' = bOut \o SplitJaCard(bData.jp[bI], bSpecies, detail, lookup)
  /\ bI' = bI + 1
  /\ UNCHANGED <<bData, bStrategy, bEnrichEn, bSpecies, bpc, bAgg, bJpSetIds, bPrev, bBuilds,
                 OthersOfBuild>>

\* return { cards: out }
JaDone ==
  /\ bpc = "jp"
  /\ bI > Len(bData.jp)
  /\ bpc' = "done"
  /\ UNCHANGED <<bData, bStrategy, bEnrichEn, bSpecies, bAgg, bJpSetIds, bI, bOut, bPrev,
                 bBuilds, OthersOfBuild>>

\* the run goes on and ends
EndBuild ==
  /\ bpc = "done"
  /\ bpc' = "exited"
  /\ UNCHANGED <<bData, bStrategy, bEnrichEn, bSpecies, bAgg, bJpSetIds, bI, bOut, bPrev,
                 bBuilds, OthersOfBuild>>

CatalogNext ==
  \/ \E strategy \in {"tcgdex", "split"}, enrichEn \in BOOLEAN, species \in SpeciesMaps :
       StartBuild(strategy, enrichEn, species)
  \/ WalkSets
  \/ \E hasDex \in BOOLEAN, lookup \in DexLookups : EnrichNext(hasDex, lookup)
  \/ ExplodeAll
  \/ EnFallback
  \/ \E lookup \in DexLookups : EnNext(lookup)
  \/ EnDone
  \/ \E detail \in CardDetails, lookup \in DexLookups : JaNext(detail, lookup)
  \/ JaDone
  \/ EndBuild

SpecCatalog == CatalogInit /\ [][CatalogNext]_vars
\* ---------------------------------------------------------------- properties

\* main() has returned: sales_30d.json, prices.json and meta.json are those
\* of this run
RunSucceeded == pc = "exited" /\ exitCode = 0 /\ runs >= 1

\* the composite key of a sale
SaleKey(s) == <<s.url, s.price_eur, s.cardId, s.bucket>>

\* the sales of sales_30d.json of one card and bucket
SalesOf(cardId, b) ==
  {i \in DOMAIN salesFile : salesFile[i].cardId = cardId /\ salesFile[i].bucket = b}

CanonicalBuckets == {"raw", "graad_7", "graad_8", "graad_9", "graad_9_5", "graad_10"}

\* C1: no two sales of sales_30d.json share (url, price_eur, cardId, bucket),
\* and the n of a card and bucket in prices.json counts each key once
C1_NoDuplicateSales ==
  /\ \A i, j \in DOMAIN salesFile :
       i # j => SaleKey(salesFile[i]) # SaleKey(salesFile[j])
  /\ RunSucceeded =>
       \A cardId \in DOMAIN pricesFile : \A b \in DOMAIN pricesFile[cardId] :
         pricesFile[cardId][b].n =
           Cardinality({SaleKey(salesFile[i]) : i \in SalesOf(cardId, b)})

\* a listing stored by the first run is collected again by the second run,
\* inside the window, and the file still holds one sale
C1_SeenAgainStoredOnce ==
  /\ RunSucceeded
  /\ runs = 2
  /\ Len(salesFile) = 1
  /\ newSales # <<>>
  /\ SaleKey(newSales[1]) = SaleKey(salesFile[1])
  /\ salesFile[1].collectedAt < collectedAt

\* every sale of the list is stamped inside the 30 days before this run
SalesFresh(sales) ==
  \A i \in DOMAIN sales :
    sales[i].collectedAt # InvalidDate /\ sales[i].collectedAt >= clock - Window

\* C2: the sales kept from the previous run, and every sale of the
\* sales_30d.json a run writes, have collectedAt >= now - 30 days
C2_WindowKept ==
  /\ pc \in {"collect", "merge", "aggregate"} => SalesFresh(kept)
  /\ (pc = "aggregate" \/ RunSucceeded) => SalesFresh(salesFile)

\* the second run starts after the window of the first: prices.json still
\* shows the sale of the first run, the sales_30d.json just written has lost it
C2_OldSaleDropped ==
  /\ pc = "aggregate"
  /\ runs = 2
  /\ DOMAIN pricesFile # {}
  /\ newSales = <<>>
  /\ salesFile = <<>>

\* C3: every sale the collector appends, and every sale of sales_30d.json,
\* has one of the six canonical buckets
C3_CanonicalBucketsOnly ==
  /\ \A i \in DOMAIN newSales : newSales[i].bucket \in CanonicalBuckets
  /\ \A i \in DOMAIN salesFile : salesFile[i].bucket \in CanonicalBuckets

\* C4: at the end of a run every sale of sales_30d.json has the id of a card
\* of catalog.json
C4_SalesReferToCatalog ==
  RunSucceeded =>
    \A i \in DOMAIN salesFile :
      \E k \in DOMAIN catalogFile.cards : catalogFile.cards[k].id = salesFile[i].cardId

\* the k-th smallest price among the sales I of sales_30d.json
OrderStat(I, k) ==
  CHOOSE p \in {salesFile[i].price_eur : i \in I} :
    /\ Cardinality({i \in I : salesFile[i].price_eur < p}) < k
    /\ k <= Cardinality({i \in I : salesFile[i].price_eur <= p})

\* twice the middle price, or the sum of the two middle prices
MiddlePrice(I) ==
  IF Cardinality(I) % 2 = 1 THEN 2 * OrderStat(I, (Cardinality(I) + 1) \div 2)
  ELSE OrderStat(I, Cardinality(I) \div 2) + OrderStat(I, (Cardinality(I) \div 2) + 1)

C6_SixBucketsPerCard ==
  RunSucceeded =>
    /\ DOMAIN pricesFile = {salesFile[i].cardId : i \in DOMAIN salesFile}
    /\ \A cardId \in DOMAIN pricesFile : DOMAIN pricesFile[cardId] = CanonicalBuckets

\* a card whose one sale has a bucket outside the six still has its entry
C6_CardWithUnknownGradeSale ==
  /\ RunSucceeded
  /\ Len(salesFile) = 1
  /\ salesFile[1].bucket \notin CanonicalBuckets
  /\ salesFile[1].cardId \in DOMAIN pricesFile

\* the normalized title has lot, bundle, playset, choose, seleziona or
\* "<digits> cards|carte"
LotTitle(title) ==
  \/ \E w \in {<<"l","o","t">>, <<"b","u","n","d","l","e">>, <<"p","l","a","y","s","e","t">>, <<"c","h","o","o","s","e">>, <<"s","e","l","e","z","i","o","n","a">>} :
       HasWord(norm(title), w)
  \/ HasCountOfCards(norm(title))

\* C7: for a likely lot bestMatchCard returns no card with confidence 0 and
\* the collector appends no sale
C7_LotNeverMatched ==
  LotTitle(tTitle) =>
    /\ tpc \in {"matched", "collected"} => tMatch.card = <<>> /\ tMatch.confidence = 0
    /\ tpc = "collected" => tSale = <<>>

\* a lot whose title has a card number, a language and the name of a card of
\* the catalog
C7_LotWithCardSignals ==
  /\ tpc = "collected"
  /\ LotTitle(tTitle)
  /\ tParsed.localId # <<>>
  /\ tParsed.lang # NULL
  /\ \E k \in DOMAIN tCatalog.cards : titleHasName(norm(tTitle), tCatalog.cards[k])

\* C8: when the title has an explicit language token, the card bestMatchCard
\* returns has that language
C8_ExplicitLanguageWins ==
  (tpc \in {"matched", "collected"} /\ tMatch.card # <<>>
     /\ detectLangFromTitle(tTitle) # NULL)
    => tMatch.card[1].lang = detectLangFromTitle(tTitle)

\* the title says en, its set code says ja, and a card is returned
C8_SetCodeSaysOtherwise ==
  /\ tpc = "matched"
  /\ tMatch.card # <<>>
  /\ tParsed.lang = "en"
  /\ inferLangFromSetCode(tParsed.setCode) = "ja"

\* C9: for "Mew 025 SV3.5 GRAAD 10" and a catalog with Mew 025,
\* extractLocalId returns "025" and the collector appends a graad_10 sale
C9_MewListingAccepted ==
  (tTitle = MewTitle
     /\ \E k \in DOMAIN tCatalog.cards :
          tCatalog.cards[k].nameEn = <<"M","e","w">> /\ tCatalog.cards[k].number = <<"0","2","5">>)
    => /\ tpc # "title" => tParsed.localId = <<"0","2","5">>
       /\ tpc = "collected" => tSale # <<>> /\ tSale[1].bucket = "graad_10"

\* the title has a grade token graad N, graad N.5 or graad N,5
HasGradeToken(title) == GradeTokens(toLowerCase(title)) # {}

\* the numbers of 2 or 3 digits that stand alone in t
SeparateNumbers(t) ==
  { SubSeq(t, i, j) : <<i, j>> \in
      { p \in (DOMAIN t) \X (DOMAIN t) :
          /\ p[2] - p[1] \in 1..2
          /\ \A k \in p[1]..p[2] : t[k] \in Digit
          /\ Boundary(t, p[1])
          /\ Boundary(t, p[2] + 1) } }

\* C10: extractLocalId returns nothing of a grade token, null when the only
\* digits of the title are in grade tokens, and the number when the title has
\* a grade token and one separate number of 2 or 3 digits
C10_LocalIdSkipsGrade ==
  (tpc # "title" /\ HasGradeToken(tTitle)) =>
    /\ tParsed.localId # <<>> => Includes(StripGradeFrom(tTitle, 1), tParsed.localId)
    /\ (\A i \in DOMAIN StripGradeFrom(tTitle, 1) : StripGradeFrom(tTitle, 1)[i] \notin Digit)
         => tParsed.localId = <<>>
    /\ \A n \in SeparateNumbers(StripGradeFrom(tTitle, 1)) :
         SeparateNumbers(StripGradeFrom(tTitle, 1)) = {n} => tParsed.localId = n

\* the order graad_7 < graad_8 < graad_9 < graad_9_5 < graad_10; 0 for any
\* other value
BucketRank(b) ==
  CASE b = "graad_7" -> 1
    [] b = "graad_8" -> 2
    [] b = "graad_9" -> 3
    [] b = "graad_9_5" -> 4
    [] b = "graad_10" -> 5
    [] OTHER -> 0

\* C11: detectGraadBucket is monotone in the grade: of two titles with one
\* grade token each, with grades g1 <= g2 among 7, 7.5, 8, 8.5, 9, 9.5, 10, the
\* bucket of the first is not above the bucket of the second in the order
\* graad_7 < graad_8 < graad_9 < graad_9_5 < graad_10; a title with graad 10
\* gets graad_10 and a title without the word graad gets null
C11_BucketMonotoneInGrade ==
  tpc # "title" =>
    /\ \A r \in GradedTitles : r.title = tTitle =>
         /\ BucketRank(tParsed.bucket) > 0
         /\ \A s \in GradedTitles :
              /\ s.grade <= r.grade =>
                   BucketRank(detectGraadBucket(s.title)) <= BucketRank(tParsed.bucket)
              /\ s.grade >= r.grade =>
                   BucketRank(detectGraadBucket(s.title)) >= BucketRank(tParsed.bucket)
    /\ Includes(toLowerCase(tTitle), <<"g","r","a","a","d"," ","1","0">>) => tParsed.bucket = "graad_10"
    /\ ~Includes(toLowerCase(tTitle), <<"g","r","a","a","d">>) => tParsed.bucket = NULL

\* a title graded 7.5 has been parsed into graad_7, below the bucket of 8
C11_HalfGradeBetweenBuckets ==
  /\ tpc # "title"
  /\ \E r \in GradedTitles : r.grade = 75 /\ r.title = tTitle
  /\ tParsed.bucket = "graad_7"

\* C12: every sale the collector appends has a price above 0, whatever price
\* text parseEurPrice accepted for its item
C12_SalePricePositive ==
  \A k \in DOMAIN iSales : iSales[k].price_eur > 0

\* a run in skip mode is about to write prices.json, a run before it has
\* written prices.json, and every listing it collected has the key of a sale of
\* the sales_30d.json it loaded
SecondRunNothingNew ==
  /\ pc = "aggregate"
  /\ env.SKIP_CATALOG
  /\ metaFile # <<>>
  /\ \A k \in DOMAIN newSales :
       \E j \in DOMAIN salesObj : SaleKey(newSales[k]) = SaleKey(salesObj[j])

\* no sale of the loaded sales_30d.json is older than the run's window
NoSaleExpired ==
  \A j \in DOMAIN salesObj :
    salesObj[j].collectedAt # InvalidDate /\ salesObj[j].collectedAt >= cutoff

\* C13 as stated: a run in skip mode that follows a run and collects no
\* listing that is not in the stored window writes the prices.json that was
\* there
C13_SamePricesNoNewSales ==
  [][SecondRunNothingNew => pricesFile' = pricesFile]_vars

\* C13, with the window: a run in skip mode that follows a run, collects no
\* listing that is not in the stored window, and finds no stored sale older
\* than its own window, writes the prices.json that was there
C13_SamePricesSameWindow ==
  [][(SecondRunNothingNew /\ NoSaleExpired) => pricesFile' = pricesFile]_vars

\* a second run in skip mode has seen a stored listing again, no sale had
\* expired, and it has written prices.json with an entry in it
C13_SecondRunSawSameListing ==
  /\ RunSucceeded
  /\ runs = 2
  /\ env.SKIP_CATALOG
  /\ metaFile # <<>>
  /\ newSales # <<>>
  /\ \A k \in DOMAIN newSales :
       \E j \in DOMAIN salesObj : SaleKey(newSales[k]) = SaleKey(salesObj[j])
  /\ NoSaleExpired
  /\ \E id \in DOMAIN pricesFile : \E b \in DOMAIN pricesFile[id] : pricesFile[id][b].n > 0

\* C14: in non-strict mode the catalog phase of a run, on the build path and
\* on the rebuild of skip mode alike, either writes a catalog that
\* validateCatalogShape accepts or leaves catalog.json as it was, and the run
\* goes on to the sales phases
C14_NonStrictFailureKeepsCatalog ==
  [][(pc = "catalog" /\ ~env.STRICT_CATALOG) =>
       /\ pc' = "sales"
       /\ catalogFile' = catalogFile \/ validateCatalogShape(catalogFile')]_vars

\* C15: in strict mode a run gets past its catalog phase only with a catalog
\* that validateCatalogShape accepts, built in the run or, in skip mode, the
\* one of catalog.json; when the build throws or the built catalog is too
\* small the process exits with a status other than 0 and the four files are
\* as they were
C15_StrictFailureWritesNothing ==
  [][(pc = "catalog" /\ env.STRICT_CATALOG) =>
       \/ /\ pc' = "exited"
          /\ exitCode' # 0
          /\ UNCHANGED <<catalogFile, salesFile, pricesFile, metaFile>>
       \/ /\ pc' = "sales"
          /\ \/ validateCatalogShape(catalog')
             \/ env.SKIP_CATALOG /\ CardsLength(catalog) # 0 /\ catalog' = catalog]_vars

\* the order of the phases of main()
PhaseOrder ==
  { <<"exited", "catalog">>, <<"catalog", "sales">>, <<"catalog", "exited">>,
    <<"sales", "collect">>, <<"collect", "merge">>, <<"merge", "aggregate">>,
    <<"aggregate", "exited">> }

\* C16: the phases run in order; a run writes catalog.json only in its
\* catalog phase, with the catalog it built in that run and that
\* validateCatalogShape accepts; sales_30d.json is written before prices.json
\* and meta.json, which are written last
C16_ValidatedBeforePersist ==
  [][/\ pc' # pc => <<pc, pc'>> \in PhaseOrder
     /\ catalogFile' # catalogFile =>
          pc = "catalog" /\ catalog' = catalogFile' /\ validateCatalogShape(catalogFile')
     /\ salesFile' # salesFile => pc = "merge"
     /\ (pricesFile' # pricesFile \/ metaFile' # metaFile) =>
          pc = "aggregate" /\ salesFile = kept]_vars

\* the loops of the collector move on by one page
NextPosition ==
  \/ page < PAGES_PER_QUERY /\ q' = q /\ page' = page + 1 /\ pc' = "collect"
  \/ page = PAGES_PER_QUERY /\ q < Len(queries) /\ q' = q + 1 /\ page' = 1 /\ pc' = "collect"
  \/ page = PAGES_PER_QUERY /\ q = Len(queries) /\ pc' = "merge"

\* C17: no step of the collector ends the run: a page, fetched or failed,
\* moves the loops on by one page and keeps the sales collected so far; after
\* the last page sales_30d.json is written with the sales kept and collected,
\* then prices.json and meta.json, and the run ends with status 0
C17_PageFailureNotFatal ==
  [][/\ pc = "collect" =>
          /\ NextPosition
          /\ exitCode' = exitCode
          /\ Len(newSales') >= Len(newSales)
          /\ SubSeq(newSales', 1, Len(newSales)) = newSales
     /\ pc = "merge" =>
          /\ pc' = "aggregate"
          /\ \A k \in DOMAIN newSales :
               \E j \in DOMAIN salesFile' : SaleKey(salesFile'[j]) = SaleKey(newSales[k])
     /\ pc = "aggregate" =>
          /\ pc' = "exited"
          /\ exitCode' = 0
          /\ metaFile' = <<[updatedAt |-> collectedAt]>>
          /\ salesFile # <<>> => pricesFile' # <<>>]_vars

\* a run has collected a sale, a later page of it has failed, and the run
\* has ended with status 0 and the sale in sales_30d.json and in prices.json
C17_RunWithFailedPageWroteFiles ==
  /\ RunSucceeded
  /\ pageSkipped
  /\ newSales # <<>>
  /\ \E j \in DOMAIN salesFile : salesFile[j].collectedAt = collectedAt
  /\ pricesFile # <<>>
  /\ metaFile = <<[updatedAt |-> collectedAt]>>

\* status 429, a status of 500 or more, or a network failure
RetryableResponse(a) == a.status = 0 \/ a.status = 429 \/ a.status >= 500

\* C18: fetchJson and fetchHtml make another request only after a response
\* with status 429 or >= 500 or after a network failure; after any other
\* status that is not a success they return null with one request made, and
\* after a successful response they make no other request
C18_RetryOnlyOnTransient ==
  /\ \A k \in DOMAIN fAttempts :
       (k < Len(fAttempts) \/ fpc = "sleep") => RetryableResponse(fAttempts[k])
  /\ (fpc = "returned" /\ fAttempts # <<>> /\ ~RetryableResponse(fAttempts[Len(fAttempts)])
        /\ ~(fAttempts[Len(fAttempts)].status \in 200..299))
       => fResult = "null"

PageUnauthorized == aLastStatus \in {401, 403}

\* every attempt of that page ended in 429, 5xx or a network error
PageRetriesExhausted ==
  aAttempt = 3 /\ (aLastStatus = 0 \/ aLastStatus = 429 \/ aLastStatus >= 500)

\* that page came with an empty data array and a totalCount other than 0
PageEmptyWithTotal ==
  /\ aPayload # <<>>
  /\ aPayload[1].hasData
  /\ aPayload[1].data = 0
  /\ aPayload[1].totalCount # 0

\* C20: when a page of the English primary adapter ends in 401 or 403, or in
\* 429, 5xx or a network error on all its attempts, or comes with empty data
\* and a totalCount other than 0, the adapter throws and the caller takes the
\* English cards from the TCGdex fallback
C20_HardFailureFallsBack ==
  (apc \in {"returned", "threw", "done"}
     /\ (PageUnauthorized \/ PageRetriesExhausted \/ PageEmptyWithTotal))
    => /\ apc # "returned"
       /\ apc = "done" => enSource = "fallback"

\* ------------------------------------------------- passes of the matcher

\* the first two characters of the normalized set code
FamilyPrefix(setCode) == SubSeq(norm(setCode), 1, MathMin(2, Len(norm(setCode))))

\* the language of a card agrees with the title: the language word of the
\* title when there is one, else the language its set code implies, if any
LanguageAgrees(c, lang, setCode) ==
  IF lang # NULL THEN c.lang = lang
  ELSE inferLangFromSetCode(setCode) # NULL => c.lang = inferLangFromSetCode(setCode)

\* the normalized title contains the card's name or its English name
NameContained(c, title) ==
  \/ Includes(norm(title), norm(c.name))
  \/ (c.nameEn # <<>> /\ Includes(norm(title), norm(c.nameEn)))

\* the criteria of the strict pass, stated on one card of the catalog
StrictCriteria(c, title, lang, setCode, localId) ==
  /\ LanguageAgrees(c, lang, setCode)
  /\ setCode # <<>> => norm(c.setId) = norm(setCode)
  /\ norm(c.number) = norm(localId)
  /\ NameContained(c, title)

\* the criteria of the loose pass: the strict ones without the set code
LooseCriteria(c, title, lang, setCode, localId) ==
  /\ LanguageAgrees(c, lang, setCode)
  /\ norm(c.number) = norm(localId)
  /\ NameContained(c, title)

CatalogCards == {tCatalog.cards[i] : i \in DOMAIN tCatalog.cards}

StrictCards ==
  {c \in CatalogCards :
     StrictCriteria(c, tTitle, tParsed.lang, tParsed.setCode, tParsed.localId)}

LooseCards ==
  {c \in CatalogCards :
     LooseCriteria(c, tTitle, tParsed.lang, tParsed.setCode, tParsed.localId)}

TitleMatched == tpc \in {"matched", "collected"}

\* C26: for a title that bestMatchCard does not reject as a lot and from
\* which a local id is extracted, the loose pass is used only when no card
\* of the catalog satisfies the strict criteria: if some card satisfies
\* language, set code (when extracted), number and name containment, the
\* result has mode strict and its card satisfies all of them; a result of
\* mode loose means no card satisfies them. When no local id is extracted
\* the result is mode name_only or no match.
C26_StrictBeforeLoose ==
  TitleMatched =>
    /\ (~tParsed.lot /\ tParsed.localId # <<>>) =>
         /\ StrictCards # {} =>
              /\ tMatch.mode = "strict"
              /\ tMatch.card # <<>>
              /\ tMatch.card[1] \in StrictCards
         /\ tMatch.mode = "loose" => StrictCards = {}
         /\ tMatch.mode # "name_only"
    /\ tParsed.localId = <<>> => tMatch.mode \in {"name_only", "none"}

\* a title with a local id matched by the strict pass although other cards
\* pass the loose criteria only
C26_StrictChosenOverLoose ==
  /\ TitleMatched
  /\ tParsed.localId # <<>>
  /\ tMatch.mode = "strict"
  /\ LooseCards \ StrictCards # {}

\* C27: in the loose pass with a set code extracted from the title, if
\* some surviving candidate has a normalized setId that starts with the
\* first two characters of the set code, the returned card is such a
\* same-family candidate.
C27_LooseStaysInFamily ==
  (/\ TitleMatched
   /\ tMatch.mode = "loose"
   /\ tParsed.setCode # <<>>
   /\ \E c \in LooseCards : startsWith(norm(c.setId), FamilyPrefix(tParsed.setCode)))
  => startsWith(norm(tMatch.card[1].setId), FamilyPrefix(tParsed.setCode))

\* C29: every result with a card has confidence >= 0.72: name_only between
\* 0.72 and 0.80, loose 0.80 or 0.85, strict 0.86 or 0.90, each below the
\* cap of its pass (0.82, 0.90, 1.0); so a listing that reaches the matcher
\* and gets a card is always pushed as a sale.
C29_ConfidenceAtLeastThreshold ==
  TitleMatched =>
    /\ tMatch.card # <<>> =>
         /\ tMatch.confidence >= 72
         /\ tMatch.mode \in {"name_only", "loose", "strict"}
         /\ tMatch.mode = "name_only" =>
              tMatch.confidence \in 72..80 /\ tMatch.confidence < 82
         /\ tMatch.mode = "loose" =>
              tMatch.confidence \in {80, 85} /\ tMatch.confidence < 90
         /\ tMatch.mode = "strict" =>
              tMatch.confidence \in {86, 90} /\ tMatch.confidence < 100
    /\ tMatch.card = <<>> => tMatch.confidence = 0
    /\ (/\ tpc = "collected"
        /\ tMatch.card # <<>>
        /\ tGradedOnly => Graded(tParsed.bucket)) => Len(tSale) = 1

\* a listing matched at exactly the threshold and collected
C29_SaleAtThreshold ==
  /\ tpc = "collected"
  /\ tMatch.mode = "name_only"
  /\ tMatch.confidence = 72
  /\ Len(tSale) = 1

\* ------------------------------------------------------- the merge step

\* the positions of the new sales that are written: the key is not that of
\* a retained sale nor that of an earlier new sale
NewUniqueAt ==
  {i \in DOMAIN newSales :
     /\ \A j \in DOMAIN kept : SaleKey(kept[j]) # SaleKey(newSales[i])
     /\ \A j \in 1..(i - 1) : SaleKey(newSales[j]) # SaleKey(newSales[i])}

\* the k-th of these positions in collection order
NthNewUnique(k) ==
  CHOOSE i \in NewUniqueAt : Cardinality({j \in NewUniqueAt : j <= i}) = k

\* C30: the merge step writes the retained sales of the previous runs
\* unchanged and in their stored order (a new listing with the key of a
\* retained sale is discarded, the retained record keeps its collectedAt),
\* followed by the new sales with a new key in collection order; every new
\* sale carries the run's collectedAt, which the run then writes as
\* meta.updatedAt.
C30_MergeKeepsRetained ==
  [][/\ pc = "merge" =>
          /\ \A i \in DOMAIN kept : \E j \in DOMAIN salesObj : kept[i] = salesObj[j]
          /\ Len(salesFile') = Len(kept) + Cardinality(NewUniqueAt)
          /\ SubSeq(salesFile', 1, Len(kept)) = kept
          /\ \A k \in 1..Cardinality(NewUniqueAt) :
               salesFile'[Len(kept) + k] = newSales[NthNewUnique(k)]
          /\ \A i \in DOMAIN newSales : newSales[i].collectedAt = collectedAt
          /\ collectedAt' = collectedAt
     /\ pc = "aggregate" =>
          /\ metaFile' = <<[updatedAt |-> collectedAt]>>
          /\ salesFile' = salesFile]_vars

\* a run has merged a listing it saw again with the sale retained from the
\* run before, which is written again with its older stamp
C30_RetainedSaleSeenAgain ==
  /\ pc = "aggregate"
  /\ \E i \in DOMAIN newSales : \E j \in DOMAIN salesObj :
       /\ SaleKey(newSales[i]) = SaleKey(salesObj[j])
       /\ salesObj[j].collectedAt # collectedAt
       /\ \E k \in DOMAIN salesFile : salesFile[k] = salesObj[j]
       /\ \A k \in DOMAIN salesFile : salesFile[k] # newSales[i]

\* ------------------------------------------------------ normalization

\* C25: both normalizers are idempotent: norm(norm(s)) = norm(s) for the
\* pipeline normalizer and for the query normalizer.
C25_NormIdempotent == npc = "twice" => nTwice = nOnce

\* the query normalizer has rewritten a language alias, and its second
\* application has left the result as it was
C25_AliasRewrittenOnce ==
  /\ npc = "twice"
  /\ nKind = "query"
  /\ HasWord(nOnce, <<"j","a">>)
  /\ ~HasWord(norm(nInput), <<"j","a">>)
  /\ nTwice = nOnce

\* ------------------------------------------------------ the dex-id cache

\* the entries of the file: the dexIds with a name
DexEntries(file) == {i \in DexIds : ReadDexCache(file)[i] # NULL}

\* a call of getPokemonNameEnByDexId starts in this step
DexCallStarts == dpc = "idle" /\ dLookups' = dLookups + 1

\* a call that went to PokeAPI returns in this step
DexCallSettles == dpc = "fetching" /\ dpc' = "idle"

\* C28: the dexId cache is read-through and monotone: no step removes or
\* changes an entry of the file; a lookup of an id that has an entry
\* returns the stored name and sends no request, in the run that stored it
\* and in later runs; a lookup that resolves a name stores it; a lookup that
\* returns null adds no entry.
C28_DexCacheMonotone ==
  [][/\ \A i \in DexEntries(dexFile) :
          i \in DexEntries(dexFile') /\ dexFile'[1][i] = dexFile[1][i]
     /\ (DexCallStarts /\ dId' \in DexEntries(dexFile)) =>
          /\ dpc' = "idle"
          /\ dResult' = dexFile[1][dId']
          /\ dRequests' = dRequests
     /\ (DexCallSettles /\ dResult' # NULL) =>
          /\ dId \in DexEntries(dexFile')
          /\ dexFile'[1][dId] = dResult'
     /\ (DexCallSettles /\ dResult' = NULL) => dexFile' = dexFile]_vars

\* in a second run, a name resolved in the first one has been returned from
\* the file: more calls than requests so far
C28_HitInLaterRun ==
  /\ dRuns = 2
  /\ dpc = "idle"
  /\ dLookups = 2
  /\ dRequests = 1
  /\ dResult # NULL
  /\ DexEntries(dexFile) = {dId}
  /\ dexFile[1][dId] = dResult

\* ---------------------------------------------------------- the catalog

\* a build has returned its catalog, bOut
BuildDone == bpc = "done"

Range(s) == {s[i] : i \in DOMAIN s}

\* the cards that TCGdex returns with a set id and a local id
TcgdexSourceCards == {c \in Range(bData.tcgdex) : c.setId # <<>> /\ c.localId # <<>>}

\* the set ids observed under the ja set index of the strategy in use
JaIndexSets ==
  IF bStrategy = "tcgdex" THEN {c.setId : c \in {r \in TcgdexSourceCards : r.lang = "ja"}}
  ELSE {c.setId : c \in Range(bData.jp)}

\* the set is a Japanese-exclusive release
JapaneseExclusive(setId) == setId \in JaIndexSets \/ inferLangFromSetCode(setId) = "ja"

\* the (setId, number) the sources return in Japanese-exclusive sets
ExclusivePrintings ==
  {p \in (IF bStrategy = "tcgdex" THEN {<<c.setId, c.localId>> : c \in TcgdexSourceCards}
          ELSE {<<c.setId, c.number>> :
                  c \in {r \in Range(bData.jp) : r.setId # <<>> /\ r.number # <<>>}}) :
     JapaneseExclusive(p[1])}

CardsOfPrinting(setId, number) ==
  {i \in DOMAIN bOut : bOut[i].setId = setId /\ bOut[i].number = number}

\* C21: in the catalog of either strategy a (setId, number) has at most one
\* ja card and at most one en card; a card of a Japanese-exclusive set (seen
\* under the ja set index, or with an id of the pattern) has lang ja and
\* name = nameJa, or else nameEn; a printing of such a set has at most one
\* card, and none when it has neither name; the English name TCGdex gives
\* for it is carried in nameEn.
C21_OneCardPerPrinting ==
  BuildDone =>
    /\ \A i, j \in DOMAIN bOut :
         (/\ bOut[i].setId = bOut[j].setId
          /\ bOut[i].number = bOut[j].number
          /\ bOut[i].lang = bOut[j].lang) => i = j
    /\ \A i \in DOMAIN bOut :
         JapaneseExclusive(bOut[i].setId) =>
           /\ bOut[i].lang = "ja"
           /\ bOut[i].nameJa # <<>> \/ bOut[i].nameEn # <<>>
           /\ bOut[i].name = IF bOut[i].nameJa # <<>> THEN bOut[i].nameJa ELSE bOut[i].nameEn
    /\ \A p \in ExclusivePrintings : Cardinality(CardsOfPrinting(p[1], p[2])) <= 1
    /\ bStrategy = "tcgdex" =>
         /\ \A p \in ExclusivePrintings : Cardinality(CardsOfPrinting(p[1], p[2])) = 1
         /\ \A c \in TcgdexSourceCards :
              (c.lang = "en" /\ JapaneseExclusive(c.setId)) =>
                \A i \in CardsOfPrinting(c.setId, c.localId) :
                  bOut[i].nameEn = OrElse(c.name, <<"U","n","k","n","o","w","n">>)

\* C22: in the catalog of either strategy every card with a nameEn has a
\* non-empty pokemonKey.
C22_KeyWheneverEnglishName ==
  BuildDone => \A i \in DOMAIN bOut : bOut[i].nameEn # <<>> => bOut[i].pokemonKey # <<>>

\* C23: two builds with the same strategy on the same source data give the
\* same printing (setId, number, lang) the same id, whatever the outcome of
\* the English-name lookups in each.
C23_SameIdAcrossBuilds ==
  (BuildDone /\ bPrev.strategy = bStrategy) =>
    \A i \in DOMAIN bOut : \A j \in DOMAIN bPrev.cards :
      (/\ bOut[i].setId = bPrev.cards[j].setId
       /\ bOut[i].number = bPrev.cards[j].number
       /\ bOut[i].lang = bPrev.cards[j].lang) => bOut[i].id = bPrev.cards[j].id

====
